---- MODULE Spec2Model ----
(***************************************************************************)
(* A model of the jayk chat bot: the IRC connection handler                *)
(* (jayk/chatbot.py, IRCChatbot), the wire protocol helpers                *)
(* (jayk/irc/__init__.py) and the desired-state reconciliation             *)
(* (jayk/cli/module.py, JaykChatbot and JaykIRCChatbot).                   *)
(*                                                                         *)
(* The object modelled is one JaykIRCChatbot.  Its method resolution order *)
(* is JaykIRCChatbot, JaykChatbot, IRCChatbot, Chatbot, ClientProtocol, so *)
(* a call of self.match_desired_state() made inside IRCChatbot runs        *)
(* JaykChatbot.match_desired_state (modules, then rooms).                  *)
(*                                                                         *)
(* Two readings are fixed here because the two files come from different   *)
(* revisions: the flag IRCChatbot sets at RPL_MYINFO (self.__ready) and    *)
(* the flag match_desired_rooms reads (self.ready) are one flag, `ready`;  *)
(* and self.modules is the name -> instance map JaykChatbot keeps.         *)
(*                                                                         *)
(* All protocol text is a sequence of one-character strings, so that the   *)
(* tests the code makes on characters (msg[0] != ':', ",".join, upper())   *)
(* are computed and not assumed.                                           *)
(*                                                                         *)
(* Beside the connection and the reconciliation the model follows the      *)
(* calls loop.call_later holds for _schedule_command, the FileListener     *)
(* thread (jayk/cli/util.py) next to the reactor thread, the module cache  *)
(* that every JaykChatbot of the process shares, and str(Message) against  *)
(* Message.parse.  Each specification follows the variables its actions    *)
(* write; the others stay as they were constructed.                        *)
(***************************************************************************)
EXTENDS Integers, Sequences, FiniteSets, TLC

VARIABLES
    connect_info,    \* irc.ConnectInfo: nicks, user, server_pass
    nick_rotation,   \* how many candidates iter(connect_info.nicks) has yielded
    nick,            \* IRCChatbot.__nick
    ready,           \* IRCChatbot.__ready / JaykIRCChatbot.ready
    transport,       \* ClientProtocol.transport: None or an open transport
    config,          \* JaykChatbot.config.modules (enabled modules only)
    desired_state,   \* JaykChatbot.desired_state
    state,           \* JaykChatbot.state
    modules,         \* JaykChatbot.modules: name -> module instance
    module_order,    \* the insertion order of the keys of JaykChatbot.modules
    trace,           \* what the last operation did, in order
    err,             \* the exception the last operation raised, or NoError
    last,            \* the last operation and its argument
    pre,             \* state.rooms, state.modules, desired_state before it
    streak,          \* consecutive match_desired_state calls, nothing between
    nick_log,        \* the nickname of every NICK command written so far
    calls,           \* per module name: the calls the last operation made on it
    chunk,           \* the lines of the last data_received and what became of each
    codec,           \* a Message, its str() and what Message.parse makes of it
    scheduled,       \* the calls loop.call_later holds for _schedule_command
    queue,           \* FileListener.queue: the events not yet taken
    threads,         \* per thread: where it is inside match_desired_state
    module_cache,    \* JaykChatbot.__module_cache, a class attribute: path -> class
    peer,            \* the module map of a second JaykChatbot of the process
    stream,          \* an inbound byte stream: what has arrived and been handled
    disk             \* per module file: its version on disk and its imports

(* the parts of the state that only some of the specifications follow *)
extra ==
    <<codec, scheduled, queue, threads, module_cache, peer, stream, disk>>

vars == <<connect_info, nick_rotation, nick, ready, transport, config,
          desired_state, state, modules, module_order, trace, err, last, pre,
          streak, nick_log, calls, chunk, codec, scheduled, queue, threads,
          module_cache, peer, stream, disk>>

----------------------------------------------------------------------------
(* Bounds of the model *)

MaxNicks == 2
NumRooms == 2
NumModules == 2
MaxMem == 1
MaxLines == 2

----------------------------------------------------------------------------
(* Text *)

None == <<"<None>">>

LowerLetters == <<"a","b","c","d","e","f","g","h","i","j","k","l","m",
                  "n","o","p","q","r","s","t","u","v","w","x","y","z">>
UpperLetters == <<"A","B","C","D","E","F","G","H","I","J","K","L","M",
                  "N","O","P","Q","R","S","T","U","V","W","X","Y","Z">>

UpperMap ==
    [c \in {LowerLetters[i] : i \in DOMAIN LowerLetters} |->
        UpperLetters[CHOOSE i \in DOMAIN LowerLetters : LowerLetters[i] = c]]

UpperChar(c) == IF c \in DOMAIN UpperMap THEN UpperMap[c] ELSE c

Upper(s) == [i \in DOMAIN s |-> UpperChar(s[i])]

RECURSIVE JoinWith(_, _)
JoinWith(parts, sep) ==
    IF parts = <<>> THEN <<>>
    ELSE IF Len(parts) = 1 THEN parts[1]
    ELSE parts[1] \o sep \o JoinWith(Tail(parts), sep)

RECURSIVE Split(_, _)
Split(s, sep) ==
    IF \E i \in DOMAIN s : s[i] = sep
    THEN LET i == CHOOSE j \in DOMAIN s :
                      s[j] = sep /\ \A k \in 1..(j - 1) : s[k] # sep
         IN <<SubSeq(s, 1, i - 1)>> \o Split(SubSeq(s, i + 1, Len(s)), sep)
    ELSE <<s>>

PASS == <<"P","A","S","S">>
USER == <<"U","S","E","R">>
NICK == <<"N","I","C","K">>
PING == <<"P","I","N","G">>
PONG == <<"P","O","N","G">>
JOIN == <<"J","O","I","N">>
PART == <<"P","A","R","T">>
KICK == <<"K","I","C","K">>
NOTICE == <<"N","O","T","I","C","E">>
RPL_MYINFO == <<"R","P","L","_","M","Y","I","N","F","O">>
ERR_ERRONEUSNICKNAME ==
    <<"E","R","R","_","E","R","R","O","N","E","U","S","N","I","C","K",
      "N","A","M","E">>
ERR_NICKNAMEINUSE ==
    <<"E","R","R","_","N","I","C","K","N","A","M","E","I","N","U","S","E">>

NICK_ERRORS == {ERR_ERRONEUSNICKNAME, ERR_NICKNAMEINUSE}

(* Message.__str__ of a message built by _make_message (prefix None) *)
Format(command, params) ==
    Upper(command)
        \o (IF params # <<>> THEN <<" ">> \o JoinWith(params, <<" ">>)
            ELSE <<>>)

----------------------------------------------------------------------------
(* The values the model draws its inputs from *)

AllNicks == << <<"b","o","t">>, <<"b","o","t","_">>, <<"b","o","t","_","_">>,
               <<"b","o","t","3">> >>
Alice == <<"a","l">>
RoomNames == << <<"#","x">>, <<"#","y">>, <<"#","z">>, <<"#","w">> >>
ModuleNameSeq == <<"a", "b", "c", "d">>
UserName == <<"j","a","y","k">>
ServerPass == <<"p","w">>

NickLists == {SubSeq(AllNicks, 1, n) : n \in 1..MaxNicks}
Rooms == {RoomNames[i] : i \in 1..NumRooms}
ModuleNames == {ModuleNameSeq[i] : i \in 1..NumModules}
Senders == {AllNicks[i] : i \in 1..MaxNicks} \cup {Alice}
Tokens == { <<"a","b","c","1","2","3">>, <<":","a","b","c">>, <<"a"," ","b">> }

(* the params of a module's entry, as the text of the mapping *)
NoParams == <<"{","}">>
OtherParams == <<"{","k",":","1","}">>

(* a module's entry in the configuration, after module_defaults: an enabled
   entry lists any rooms, a disabled entry lists all of them; no path (the
   file is <name>.py) and no params *)
ConfigEntries ==
    [enabled : {TRUE}, rooms : SUBSET Rooms, path : {None},
     params : {NoParams}]
        \cup [enabled : {FALSE}, rooms : {Rooms}, path : {None},
              params : {NoParams}]
(* the configurations handed to update_config: every module has an entry,
   or the configuration names no module at all *)
InputConfigs == [ModuleNames -> ConfigEntries] \cup {<<>>}

(* the configurations of the dispatch model: the first module, from the
   file <name>.py, with either params; the second from <name>.py or from
   the file its entry names *)
ModEntries(n) ==
    IF n = ModuleNameSeq[1]
    THEN [enabled : {TRUE}, rooms : {{RoomNames[1]}, Rooms}, path : {None},
          params : {NoParams, OtherParams}]
    ELSE [enabled : {TRUE}, rooms : {{RoomNames[1]}, {RoomNames[2]}},
          path : {None, <<"a","l","l",".","p","y">>}, params : {NoParams}]
ModConfigs ==
    {c \in [ModuleNames ->
               UNION {ModEntries(n) : n \in ModuleNames}
                   \cup [enabled : {FALSE}, rooms : {Rooms}, path : {None},
                         params : {NoParams}]] :
        \A n \in ModuleNames : c[n].enabled => c[n] \in ModEntries(n)}

(* the text of user messages *)
Texts == { <<"!","h","e","l","p"," ","m","e">>, <<"h","e","l","l","o">>,
           <<" ","!","h","e","l","p">>,
           <<"!","h","e","l","p","\t","m","e">> }

Range(seq) == {seq[i] : i \in DOMAIN seq}

Orders(S) ==
    {f \in [1..Cardinality(S) -> S] :
        \A i, j \in 1..Cardinality(S) : i # j => f[i] # f[j]}

----------------------------------------------------------------------------
(* Events of the trace of one operation *)

NoError == "none"
(* a line written to the transport; or unload_module, load_module or
   update_module called once for each name of a set, in the iteration
   order of that set (match_desired_modules' three loops) *)
Send(line) == [ev |-> "send", names |-> {}, line |-> line]
ModEv(kind, names) == [ev |-> kind, names |-> names, line |-> <<>>]
Sends(lines) == [i \in DOMAIN lines |-> Send(lines[i])]

(* reading a written line back: its command word and its parameter text *)
IsCommand(line, command) ==
    /\ Len(line) >= Len(command)
    /\ SubSeq(line, 1, Len(command)) = command
    /\ (Len(line) > Len(command) => line[Len(command) + 1] = " ")
ParamText(line, command) == SubSeq(line, Len(command) + 2, Len(line))
IsNickLine(line) == IsCommand(line, NICK)
NicksWritten(lines) ==
    LET s == SelectSeq(lines, IsNickLine)
    IN [i \in DOMAIN s |-> ParamText(s[i], NICK)]

IsSend(e) == e.ev = "send"
Out(tr) == LET s == SelectSeq(tr, IsSend) IN [i \in DOMAIN s |-> s[i].line]

NoMsg == [user |-> None, command |-> <<>>, params |-> <<>>]
(* the operation, the message it handled, the argument it was called with *)
OpWith(name, arg) == [op |-> name, msg |-> NoMsg, arg |-> arg]
Op(name) == OpWith(name, None)
Recv(msg) == [op |-> "data_received", msg |-> msg, arg |-> None]

NoCodec == [text |-> None]
Idle == [t \in {"reactor", "watcher"} |-> "idle"]
NoStream ==
    [whole |-> <<>>, rest |-> <<>>, handled |-> <<>>,
     st0 |-> [nick_rotation |-> 0, nick |-> None]]
Snapshot == [rooms |-> state.rooms, modules |-> state.modules,
             desired |-> desired_state, mods |-> modules,
             conn |-> <<ready, nick_rotation, nick>>]

----------------------------------------------------------------------------
(* irc.ClientProtocol *)

Transport == <<"<transport>">>

(* _send_message: self.transport.write(...); with transport None the
   attribute lookup on None raises AttributeError and nothing is written *)
Written(tr, lines) == IF tr = None THEN <<>> ELSE lines
SendErr(tr, lines) ==
    IF tr = None /\ lines # <<>> THEN "AttributeError" ELSE NoError

----------------------------------------------------------------------------
(* IRCChatbot: nickname rotation and the handshake *)

TryNextNickWrap(nicks, rot, cur) ==
    LET i == (rot % Len(nicks)) + 1
    IN [nick_rotation |-> i, nick |-> nicks[i],
        lines |-> <<Format(NICK, <<nicks[i]>>)>>, err |-> NoError]

TryNextNickResend(nicks, rot, cur) ==
    IF rot < Len(nicks)
    THEN [nick_rotation |-> rot + 1, nick |-> nicks[rot + 1],
          lines |-> <<Format(NICK, <<nicks[rot + 1]>>)>>, err |-> NoError]
    ELSE [nick_rotation |-> rot, nick |-> cur,
          lines |-> <<Format(NICK, <<cur>>)>>, err |-> "NoMoreNicksError"]

(* __try_next_nick: next() on the iterator made once in __init__ *)
TryNextNick(nicks, rot, cur) ==
    IF rot < Len(nicks)
    THEN [nick_rotation |-> rot + 1, nick |-> nicks[rot + 1],
          lines |-> <<Format(NICK, <<nicks[rot + 1]>>)>>, err |-> NoError]
    ELSE [nick_rotation |-> rot, nick |-> cur,
          lines |-> <<>>, err |-> "NoMoreNicksError"]

OnConnectLinesNickFirst(ci, nicklines) ==
    nicklines
        \o (IF ci.server_pass # None
            THEN <<Format(PASS, <<ci.server_pass>>)>> ELSE <<>>)
        \o <<Format(USER, <<ci.user, <<"0">>, <<"*">>,
                            <<"C","h","a","t","b","o","t">> >>)>>

(* on_connect: PASS if a password is set, USER, then the first NICK *)
OnConnectLines(ci, nicklines) ==
    (IF ci.server_pass # None
     THEN <<Format(PASS, <<ci.server_pass>>)>> ELSE <<>>)
        \o <<Format(USER, <<ci.user, <<"0">>, <<"*">>,
                            <<"C","h","a","t","b","o","t">> >>)>>
        \o nicklines

PongParamAlways(msg) == <<":">> \o msg

(* the PING branch: msg = params[0]; if msg[0] != ':': msg = ':' + msg *)
PongParam(msg) == IF msg[1] # ":" THEN <<":">> \o msg ELSE msg

----------------------------------------------------------------------------
(* JaykState.from_config and JaykChatbot.update_config's filter *)

EnabledOnly(c) == [n \in {m \in DOMAIN c : c[m].enabled} |-> c[n]]

(* from_config with `rooms = set(module.rooms)` for `rooms |= ...` *)
FromConfigAssign(cfg) ==
    LET on == {n \in DOMAIN cfg : cfg[n].enabled}
    IN [modules |-> on,
        rooms |-> IF on = {} THEN {}
                  ELSE cfg[CHOOSE n \in on : TRUE].rooms]

FromConfig(cfg) ==
    LET on == {n \in DOMAIN cfg : cfg[n].enabled}
    IN [modules |-> on, rooms |-> UNION {cfg[n].rooms : n \in on}]

----------------------------------------------------------------------------
(* JaykChatbot.match_desired_modules *)

(* the module classes the files hold: the commands a class registers with
   jayk_command and whether its namespace defines on_message *)
Help == <<"!","h","e","l","p">>
PySuffix == <<".","p","y">>
CmdPath == <<"c","m","d">> \o PySuffix
AllPath == <<"a","l","l">> \o PySuffix
BothClass == [commands |-> {Help}, on_message |-> TRUE]
CmdClass == [commands |-> {Help}, on_message |-> FALSE]
AllClass == [commands |-> {}, on_message |-> TRUE]
Files ==
    [p \in {<<n>> \o PySuffix : n \in ModuleNames} \cup {CmdPath, AllPath} |->
        IF p = CmdPath \/ p = <<ModuleNameSeq[2]>> \o PySuffix THEN CmdClass
        ELSE IF p = AllPath THEN AllClass ELSE BothClass]

(* the module files as the process starts: version 0 on disk, not imported;
   `first` is the version the first import of the file saw *)
NoImports ==
    [p \in DOMAIN Files |-> [version |-> 0, imports |-> 0, first |-> 0]]

(* one call made on a module, or on its entry of the map (pop) *)
Call(fn, room, who, cmd, arg) ==
    [fn |-> fn, room |-> room, who |-> who, cmd |-> cmd, arg |-> arg]
Call0(fn) == Call(fn, None, None, None, None)
NoCalls == [n \in ModuleNames |-> <<>>]

(* get_module: the class of the file at the path *)
GetModule(name, path) == Files[path]

(* load_module: path = config.path; if not path: path = name + '.py' *)
ModulePath(name, cfg_entry) ==
    IF cfg_entry.path = None THEN <<name>> \o PySuffix ELSE cfg_entry.path

(* load_module: the path is <name>.py unless the entry names one; the
   instance is built from the entry's rooms and params (`params` are the
   ones it was built with).  `mem` stands for what the instance keeps in
   memory: the number of messages its handlers have seen *)
LoadModule(name, cfg_entry) ==
    LET path == IF cfg_entry.path = None THEN <<name>> \o PySuffix
                ELSE cfg_entry.path
    IN [rooms |-> cfg_entry.rooms, params |-> cfg_entry.params,
        cls |-> GetModule(name, path), mem |-> 0]
LoadCalls(cfg_entry) ==
    <<Call("__init__", None, None, None, cfg_entry.params)>>

(* unload_module: mod = self.modules.pop(name); mod.on_unload() *)
UnloadCalls == <<Call0("pop"), Call0("on_unload")>>

UpdateModuleReload(inst, cfg_entry) ==
    [inst EXCEPT !.rooms = cfg_entry.rooms, !.params = cfg_entry.params,
                 !.mem = 0]

(* update_module: JaykModule.update_config sets self.rooms and hands the
   params to on_update_params, on the instance the map already holds *)
UpdateModule(inst, cfg_entry) == [inst EXCEPT !.rooms = cfg_entry.rooms]
UpdateCalls(cfg_entry) ==
    <<Call0("update_config"),
      Call("on_update_params", None, None, None, cfg_entry.params)>>

RemoveNames(ord, names) ==
    LET keep(n) == n \notin names IN SelectSeq(ord, keep)

ModulesPassLoadFirst(cfg, st_modules, mods, ord, oa) ==
    LET old_modules == st_modules
        new_modules == DOMAIN cfg
        to_add == new_modules \ old_modules
        to_remove == old_modules \ new_modules
        to_update == new_modules \cap old_modules
        mods1 == [n \in (DOMAIN mods) \ to_remove |-> mods[n]]
        mods2 == [n \in (DOMAIN mods1) \cup to_add |->
                     IF n \in to_add THEN LoadModule(n, cfg[n])
                     ELSE mods1[n]]
        mods3 == [n \in DOMAIN mods2 |->
                     IF n \in to_update THEN UpdateModule(mods2[n], cfg[n])
                     ELSE mods2[n]]
    IN [modules |-> mods3,
        order |-> RemoveNames(ord, to_remove) \o oa,
        state_modules |-> DOMAIN mods3,
        events |-> <<ModEv("load", to_add), ModEv("unload", to_remove),
                     ModEv("update", to_update)>>,
        calls |-> [n \in ModuleNames |->
                      IF n \in to_remove THEN UnloadCalls
                      ELSE IF n \in to_add THEN LoadCalls(cfg[n])
                      ELSE IF n \in to_update THEN UpdateCalls(cfg[n])
                      ELSE <<>>]]

(* match_desired_modules that updates only the modules whose entry differs
   from what the instance holds *)
ModulesPassChanged(cfg, st_modules, mods, ord, oa) ==
    LET old_modules == st_modules
        new_modules == DOMAIN cfg
        to_add == new_modules \ old_modules
        to_remove == old_modules \ new_modules
        to_update == {n \in new_modules \cap old_modules :
                         \/ mods[n].rooms # cfg[n].rooms
                         \/ mods[n].params # cfg[n].params}
        mods1 == [n \in (DOMAIN mods) \ to_remove |-> mods[n]]
        mods2 == [n \in (DOMAIN mods1) \cup to_add |->
                     IF n \in to_add THEN LoadModule(n, cfg[n])
                     ELSE mods1[n]]
        mods3 == [n \in DOMAIN mods2 |->
                     IF n \in to_update THEN UpdateModule(mods2[n], cfg[n])
                     ELSE mods2[n]]
    IN [modules |-> mods3,
        order |-> RemoveNames(ord, to_remove) \o oa,
        state_modules |-> DOMAIN mods3,
        events |-> <<ModEv("unload", to_remove), ModEv("load", to_add),
                     ModEv("update", to_update)>>,
        calls |-> [n \in ModuleNames |->
                      IF n \in to_remove THEN UnloadCalls
                      ELSE IF n \in to_add THEN LoadCalls(cfg[n])
                      ELSE IF n \in to_update THEN UpdateCalls(cfg[n])
                      ELSE <<>>]]

(* match_desired_modules: the three loops, then state.modules = the keys of
   the map.  `ord` is the insertion order of the keys before the run, `oa`
   the order in which the loop over to_add visits its set *)
ModulesPass(cfg, st_modules, mods, ord, oa) ==
    LET old_modules == st_modules
        new_modules == DOMAIN cfg
        to_add == new_modules \ old_modules
        to_remove == old_modules \ new_modules
        to_update == new_modules \cap old_modules
        mods1 == [n \in (DOMAIN mods) \ to_remove |-> mods[n]]
        mods2 == [n \in (DOMAIN mods1) \cup to_add |->
                     IF n \in to_add THEN LoadModule(n, cfg[n])
                     ELSE mods1[n]]
        mods3 == [n \in DOMAIN mods2 |->
                     IF n \in to_update THEN UpdateModule(mods2[n], cfg[n])
                     ELSE mods2[n]]
    IN [modules |-> mods3,
        order |-> RemoveNames(ord, to_remove) \o oa,
        state_modules |-> DOMAIN mods3,
        events |-> <<ModEv("unload", to_remove), ModEv("load", to_add),
                     ModEv("update", to_update)>>,
        calls |-> [n \in ModuleNames |->
                      IF n \in to_remove THEN UnloadCalls
                      ELSE IF n \in to_add THEN LoadCalls(cfg[n])
                      ELSE IF n \in to_update THEN UpdateCalls(cfg[n])
                      ELSE <<>>]]

----------------------------------------------------------------------------
(* JaykIRCChatbot.match_desired_rooms *)

RoomLinesPerRoom(old_rooms, new_rooms) ==
    LET to_leave == old_rooms \ new_rooms
        to_join == new_rooms \ old_rooms
    IN {[i \in DOMAIN ol |-> Format(PART, <<ol[i]>>)]
          \o [i \in DOMAIN oj |-> Format(JOIN, <<oj[i]>>)] :
        ol \in Orders(to_leave), oj \in Orders(to_join)}

RoomLinesJoinAll(old_rooms, new_rooms) ==
    LET to_leave == old_rooms \ new_rooms
        to_join == new_rooms
    IN {(IF to_leave # {}
         THEN <<Format(PART, <<JoinWith(ol, <<",">>)>>)>> ELSE <<>>)
          \o (IF to_join # {}
              THEN <<Format(JOIN, <<JoinWith(oj, <<",">>)>>)>> ELSE <<>>) :
        ol \in Orders(to_leave), oj \in Orders(to_join)}

(* the PART and JOIN lines of one run on a ready connection; the order of
   the names in ",".join(a set) is the set's iteration order: any order *)
RoomLines(old_rooms, new_rooms) ==
    LET to_leave == old_rooms \ new_rooms
        to_join == new_rooms \ old_rooms
    IN {(IF to_leave # {}
         THEN <<Format(PART, <<JoinWith(ol, <<",">>)>>)>> ELSE <<>>)
          \o (IF to_join # {}
              THEN <<Format(JOIN, <<JoinWith(oj, <<",">>)>>)>> ELSE <<>>) :
        ol \in Orders(to_leave), oj \in Orders(to_join)}

RoomsPassAlways(rdy, old_rooms, new_rooms) == RoomLines(old_rooms, new_rooms)

(* match_desired_rooms: nothing at all unless the connection is ready *)
RoomsPass(rdy, old_rooms, new_rooms) ==
    IF ~rdy THEN {<<>>} ELSE RoomLines(old_rooms, new_rooms)

----------------------------------------------------------------------------
(* JaykChatbot.match_desired_state: match_desired_modules, then
   match_desired_rooms.  A pass is one choice of the iteration orders. *)

PassesNoRooms(cfg, st, des, mods, ord, rdy) ==
    {[mp |-> ModulesPass(cfg, st.modules, mods, ord, oa), lines |-> <<>>] :
        oa \in Orders((DOMAIN cfg) \ st.modules)}

Passes(cfg, st, des, mods, ord, rdy) ==
    {[mp |-> mp, lines |-> rl] :
        mp \in {ModulesPass(cfg, st.modules, mods, ord, oa) :
                   oa \in Orders((DOMAIN cfg) \ st.modules)},
        rl \in RoomsPass(rdy, st.rooms, des.rooms)}

Bump(n) == IF n < 2 THEN n + 1 ELSE 2

----------------------------------------------------------------------------
(* Construction: IRCChatbot.__init__, then JaykChatbot.__init__, whose
   update_config(config) runs the first pass on a connection not ready *)

Constructed(nick_lists, passwords, configs) ==
    \E nicks \in nick_lists, pw \in passwords, c \in configs :
        LET cfg == EnabledOnly(c)
            des == FromConfig(cfg)
            empty == [modules |-> {}, rooms |-> {}]
        IN \E p \in Passes(cfg, empty, des, <<>>, <<>>, FALSE) :
            /\ connect_info = [nicks |-> nicks, user |-> UserName,
                               server_pass |-> pw]
            /\ nick_rotation = 0
            /\ nick = None
            /\ ready = FALSE
            /\ transport = None
            /\ config = cfg
            /\ desired_state = des
            /\ state = [modules |-> p.mp.state_modules, rooms |-> {}]
            /\ modules = p.mp.modules
            /\ module_order = p.mp.order
            /\ trace = p.mp.events \o Sends(p.lines)
            /\ err = NoError
            /\ last = Op("__init__")
            /\ pre = [rooms |-> {}, modules |-> {}, desired |-> empty,
                      mods |-> <<>>, conn |-> <<FALSE, 0, None>>]
            /\ streak = 1
            /\ nick_log = <<>>
            /\ calls = p.mp.calls
            /\ chunk = <<>>
            /\ codec = NoCodec
            /\ scheduled = <<>>
            /\ queue = 0
            /\ threads = Idle
            /\ module_cache = <<>>
            /\ peer = <<>>
            /\ stream = NoStream
            /\ disk = NoImports

(* every candidate list and password setting, for the connection claims *)
InitConn == Constructed(NickLists, {None, ServerPass}, InputConfigs)

(* one candidate and no password, for reconciliation and dispatch *)
Init == Constructed({SubSeq(AllNicks, 1, 1)}, {None}, InputConfigs)

(* every candidate list and one configuration, for the chunks of lines *)
DataConfig ==
    [n \in ModuleNames |->
        [enabled |-> TRUE, rooms |-> {RoomNames[1]}, path |-> None,
         params |-> NoParams]]
InitData == Constructed(NickLists, {None}, {DataConfig})

----------------------------------------------------------------------------
(* IRCChatbot.connection_made: ClientProtocol.connection_made, on_connect *)

ConnectionMade ==
    /\ transport = None
    /\ LET t == TryNextNick(connect_info.nicks, nick_rotation, nick)
       IN /\ transport' = Transport
          /\ nick_rotation' = t.nick_rotation
          /\ nick' = t.nick
          /\ trace' = Sends(OnConnectLines(connect_info, t.lines))
          /\ nick_log' = nick_log
                 \o NicksWritten(OnConnectLines(connect_info, t.lines))
          /\ err' = t.err
    /\ last' = Op("connection_made")
    /\ pre' = Snapshot
    /\ UNCHANGED extra
    /\ streak' = 0
    /\ calls' = NoCalls
    /\ chunk' = <<>>
    /\ UNCHANGED <<connect_info, ready, config, desired_state, state, modules,
                   module_order>>

(* connection_lost that also forgets the registration and the rooms *)
ConnectionLostResets ==
    /\ transport # None
    /\ transport' = None
    /\ ready' = FALSE
    /\ state' = [state EXCEPT !.rooms = {}]
    /\ trace' = <<>>
    /\ err' = NoError
    /\ last' = Op("connection_lost")
    /\ pre' = Snapshot
    /\ UNCHANGED extra
    /\ streak' = 0
    /\ calls' = NoCalls
    /\ chunk' = <<>>
    /\ UNCHANGED <<nick_log, connect_info, nick_rotation, nick, config,
                   desired_state, modules, module_order>>

(* ClientProtocol.connection_lost *)
ConnectionLost ==
    /\ transport # None
    /\ transport' = None
    /\ trace' = <<>>
    /\ err' = NoError
    /\ last' = Op("connection_lost")
    /\ pre' = Snapshot
    /\ UNCHANGED extra
    /\ streak' = 0
    /\ calls' = NoCalls
    /\ chunk' = <<>>
    /\ UNCHANGED <<nick_log, connect_info, nick_rotation, nick, ready, config,
                   desired_state, state, modules, module_order>>

----------------------------------------------------------------------------
(* data_received with one line, by the branch of _handle_irc_message *)

(* RPL_MYINFO: self.__ready = True; self.match_desired_state() *)
RecvMyInfo ==
    /\ transport # None
    /\ \E p \in Passes(config, state, desired_state, modules, module_order,
                        TRUE) :
        /\ ready' = TRUE
        /\ modules' = p.mp.modules
        /\ module_order' = p.mp.order
        /\ calls' = p.mp.calls
        /\ state' = [state EXCEPT !.modules = p.mp.state_modules]
        /\ trace' = p.mp.events \o Sends(p.lines)
    /\ chunk' = <<>>
    /\ err' = NoError
    /\ last' = Recv([user |-> None, command |-> RPL_MYINFO, params |-> <<>>])
    /\ pre' = Snapshot
    /\ UNCHANGED extra
    /\ streak' = 1
    /\ UNCHANGED <<nick_log, connect_info, nick_rotation, nick, transport, config,
                   desired_state>>

(* the nick errors handled during registration only: once ready, the reply
   is ignored *)
RecvNickErrorUnready ==
    /\ transport # None
    /\ \E cmd \in NICK_ERRORS :
        LET t == IF ready
                 THEN [nick_rotation |-> nick_rotation, nick |-> nick,
                       lines |-> <<>>, err |-> NoError]
                 ELSE TryNextNick(connect_info.nicks, nick_rotation, nick)
        IN /\ nick_rotation' = t.nick_rotation
           /\ nick' = t.nick
           /\ trace' = Sends(t.lines)
           /\ nick_log' = nick_log \o NicksWritten(t.lines)
           /\ err' = t.err
           /\ last' = Recv([user |-> None, command |-> cmd, params |-> <<>>])
    /\ pre' = Snapshot
    /\ UNCHANGED extra
    /\ streak' = 0
    /\ calls' = NoCalls
    /\ chunk' = <<>>
    /\ UNCHANGED <<connect_info, ready, transport, config, desired_state,
                   state, modules, module_order>>

(* a command in NICK_ERRORS: self.__try_next_nick() *)
RecvNickError ==
    /\ transport # None
    /\ \E cmd \in NICK_ERRORS :
        LET t == TryNextNick(connect_info.nicks, nick_rotation, nick)
        IN /\ nick_rotation' = t.nick_rotation
           /\ nick' = t.nick
           /\ trace' = Sends(t.lines)
           /\ nick_log' = nick_log \o NicksWritten(t.lines)
           /\ err' = t.err
           /\ last' = Recv([user |-> None, command |-> cmd, params |-> <<>>])
    /\ pre' = Snapshot
    /\ UNCHANGED extra
    /\ streak' = 0
    /\ calls' = NoCalls
    /\ chunk' = <<>>
    /\ UNCHANGED <<connect_info, ready, transport, config, desired_state,
                   state, modules, module_order>>

(* PING handled as if the override of _handle_irc_message named it next to
   KICK, JOIN and PART: match_desired_rooms runs after the PONG *)
RecvPingMatches ==
    /\ transport # None
    /\ \E params \in {<<t>> : t \in Tokens},
          rl \in RoomsPass(ready, state.rooms, desired_state.rooms) :
        /\ trace' = Sends(<<Format(PONG, <<PongParam(params[1])>>)>>)
                      \o Sends(rl)
        /\ err' = NoError
        /\ last' = Recv([user |-> None, command |-> PING, params |-> params])
    /\ pre' = Snapshot
    /\ UNCHANGED extra
    /\ streak' = 0
    /\ calls' = NoCalls
    /\ chunk' = <<>>
    /\ UNCHANGED <<nick_log, connect_info, nick_rotation, nick, ready, transport,
                   config, desired_state, state, modules, module_order>>

(* PING: without a parameter the error log line reads `msg` before it is
   assigned (UnboundLocalError); otherwise one PONG *)
RecvPing ==
    /\ transport # None
    /\ \E params \in {<<>>} \cup {<<t>> : t \in Tokens} :
        /\ IF params = <<>>
           THEN trace' = <<>> /\ err' = "UnboundLocalError"
           ELSE /\ trace' = Sends(<<Format(PONG, <<PongParam(params[1])>>)>>)
                /\ err' = NoError
        /\ last' = Recv([user |-> None, command |-> PING, params |-> params])
    /\ pre' = Snapshot
    /\ UNCHANGED extra
    /\ streak' = 0
    /\ calls' = NoCalls
    /\ chunk' = <<>>
    /\ UNCHANGED <<nick_log, connect_info, nick_rotation, nick, ready, transport,
                   config, desired_state, state, modules, module_order>>

ForwardCallsAll(mods, fn, room, who) ==
    [n \in ModuleNames |->
        IF n \in DOMAIN mods
        THEN <<Call(fn, room, who, None, None)>> ELSE <<>>]

(* Chatbot.on_join_room / on_leave_room: the event goes to every module of
   the map whose rooms contain the room *)
ForwardCalls(mods, fn, room, who) ==
    [n \in ModuleNames |->
        IF n \in DOMAIN mods /\ room \in mods[n].rooms
        THEN <<Call(fn, room, who, None, None)>> ELSE <<>>]
CallsThen(c1, c2) == [n \in ModuleNames |-> c1[n] \o c2[n]]

(* the same without the second match_desired_rooms of the override *)
MembershipOnce(msg, rooms1, fn, who) ==
    \E p \in Passes(config, [state EXCEPT !.rooms = rooms1], desired_state,
                    modules, module_order, ready) :
        /\ modules' = p.mp.modules
        /\ module_order' = p.mp.order
        /\ calls' = CallsThen(ForwardCalls(modules, fn, msg.params[1], who),
                              p.mp.calls)
        /\ state' = [modules |-> p.mp.state_modules, rooms |-> rooms1]
        /\ trace' = p.mp.events \o Sends(p.lines)
        /\ err' = NoError
        /\ last' = Recv(msg)
        /\ streak' = 1

(* What JOIN, KICK and PART share once the room and `who` are known:
   on_join_room / on_leave_room update state.rooms when who is None (the
   bot), match_desired_state runs, and the override of _handle_irc_message
   in JaykIRCChatbot then runs match_desired_rooms once more *)
Membership(msg, rooms1, fn, who) ==
    \E p \in Passes(config, [state EXCEPT !.rooms = rooms1], desired_state,
                    modules, module_order, ready),
       again \in RoomsPass(ready, rooms1, desired_state.rooms) :
        /\ modules' = p.mp.modules
        /\ module_order' = p.mp.order
        /\ calls' = CallsThen(ForwardCalls(modules, fn, msg.params[1], who),
                              p.mp.calls)
        /\ state' = [modules |-> p.mp.state_modules, rooms |-> rooms1]
        /\ trace' = p.mp.events \o Sends(p.lines) \o Sends(again)
        /\ err' = NoError
        /\ last' = Recv(msg)
        /\ streak' = 1

Raises(msg, exc) ==
    /\ trace' = <<>>
    /\ err' = exc
    /\ last' = Recv(msg)
    /\ streak' = 0
    /\ calls' = NoCalls
    /\ UNCHANGED <<state, modules, module_order>>

(* JOIN handled without on_join_room adding the room of the bot's own JOIN *)
RecvJoinUntracked ==
    /\ transport # None
    /\ \E user \in Senders \cup {None},
          params \in {<<>>} \cup {<<r>> : r \in Rooms} :
        LET msg == [user |-> user, command |-> JOIN, params |-> params]
        IN IF user = None THEN Raises(msg, "AttributeError")
           ELSE IF params = <<>> THEN Raises(msg, "IndexError")
           ELSE Membership(msg, state.rooms, "on_join_room",
                           IF user = nick THEN None ELSE user)
    /\ chunk' = <<>>
    /\ pre' = Snapshot
    /\ UNCHANGED extra
    /\ UNCHANGED <<nick_log, connect_info, nick_rotation, nick, ready, transport,
                   config, desired_state>>

(* JOIN: who = None if message.user.nick == self.nick else message.user *)
RecvJoin ==
    /\ transport # None
    /\ \E user \in Senders \cup {None},
          params \in {<<>>} \cup {<<r>> : r \in Rooms} :
        LET msg == [user |-> user, command |-> JOIN, params |-> params]
        IN IF user = None THEN Raises(msg, "AttributeError")
           ELSE IF params = <<>> THEN Raises(msg, "IndexError")
           ELSE Membership(msg,
                           IF user = nick THEN state.rooms \cup {params[1]}
                           ELSE state.rooms,
                           "on_join_room",
                           IF user = nick THEN None ELSE user)
    /\ chunk' = <<>>
    /\ pre' = Snapshot
    /\ UNCHANGED extra
    /\ UNCHANGED <<nick_log, connect_info, nick_rotation, nick, ready, transport,
                   config, desired_state>>

(* KICK: room = params[0]; who = params[1] *)
RecvKick ==
    /\ transport # None
    /\ \E params \in {<<r>> : r \in Rooms}
                     \cup {<<r, w>> : r \in Rooms, w \in Senders} :
        LET msg == [user |-> Alice, command |-> KICK, params |-> params]
        IN IF Len(params) < 2 THEN Raises(msg, "IndexError")
           ELSE Membership(msg,
                           IF params[2] = nick THEN state.rooms \ {params[1]}
                           ELSE state.rooms,
                           "on_leave_room",
                           IF params[2] = nick THEN None ELSE params[2])
    /\ chunk' = <<>>
    /\ pre' = Snapshot
    /\ UNCHANGED extra
    /\ UNCHANGED <<nick_log, connect_info, nick_rotation, nick, ready, transport,
                   config, desired_state>>

(* PART: room = params[0]; who = message.user.nick *)
RecvPart ==
    /\ transport # None
    /\ \E user \in Senders \cup {None},
          params \in {<<>>} \cup {<<r>> : r \in Rooms} :
        LET msg == [user |-> user, command |-> PART, params |-> params]
        IN IF params = <<>> THEN Raises(msg, "IndexError")
           ELSE IF user = None THEN Raises(msg, "AttributeError")
           ELSE Membership(msg,
                           IF user = nick THEN state.rooms \ {params[1]}
                           ELSE state.rooms,
                           "on_leave_room",
                           IF user = nick THEN None ELSE user)
    /\ chunk' = <<>>
    /\ pre' = Snapshot
    /\ UNCHANGED extra
    /\ UNCHANGED <<nick_log, connect_info, nick_rotation, nick, ready, transport,
                   config, desired_state>>

(* A command no branch of IRCChatbot._handle_irc_message names.  The
   override compares message.command.upper(), so a lower-case join, kick
   or part still runs match_desired_rooms. *)
RecvOther ==
    /\ transport # None
    /\ \E cmd \in {NOTICE, <<"j","o","i","n">>} :
        \E rl \in (IF Upper(cmd) \in {KICK, JOIN, PART}
                   THEN RoomsPass(ready, state.rooms, desired_state.rooms)
                   ELSE {<<>>}) :
            /\ trace' = Sends(rl)
            /\ last' = Recv([user |-> Alice, command |-> cmd,
                             params |-> <<>>])
    /\ err' = NoError
    /\ pre' = Snapshot
    /\ UNCHANGED extra
    /\ streak' = 0
    /\ calls' = NoCalls
    /\ chunk' = <<>>
    /\ UNCHANGED <<nick_log, connect_info, nick_rotation, nick, ready, transport,
                   config, desired_state, state, modules, module_order>>

----------------------------------------------------------------------------
(* PRIVMSG: Chatbot.on_message and the on_message of the module classes *)

PRIVMSG == <<"P","R","I","V","M","S","G">>
WhiteSpace == {" ", "\t"}

RECURSIVE LStrip(_)
LStrip(s) ==
    IF s # <<>> /\ s[1] \in WhiteSpace THEN LStrip(Tail(s)) ELSE s
RECURSIVE TakeWord(_)
TakeWord(s) ==
    IF s = <<>> \/ s[1] \in WhiteSpace THEN <<>>
    ELSE <<s[1]>> \o TakeWord(Tail(s))
(* message.split(): the words between runs of whitespace; its first word,
   in a sequence, or the empty sequence when there is no word *)
FirstWord(text) ==
    IF LStrip(text) = <<>> THEN <<>> ELSE <<TakeWord(LStrip(text))>>

(* what on_message of an instance of the class calls.  A class with
   commands whose namespace defines on_message gets on_message_wrapper
   (msg.split(' ')); a class with on_message alone runs it for every
   message; otherwise JaykModule.on_message (message.split()) runs *)
OnMessageCalls(cls, room, sender, text) ==
    IF cls.commands # {} /\ cls.on_message
    THEN LET parts == Split(text, " ")
         IN IF parts # <<>> /\ parts[1] \in cls.commands
            THEN <<Call("command", room, sender, parts[1], text)>>
            ELSE <<Call("on_message", room, sender, None, text)>>
    ELSE IF cls.on_message
    THEN <<Call("on_message", room, sender, None, text)>>
    ELSE LET parts == FirstWord(text)
         IN IF parts # <<>> /\ parts[1] \in cls.commands
            THEN <<Call("command", room, sender, parts[1], text)>>
            ELSE <<>>

OfferedAll(mods, ord, room) == ord

(* Chatbot.on_message: the modules of the map, in the order of the map,
   whose rooms contain the room *)
Offered(mods, ord, room) ==
    LET mine(n) == room \in mods[n].rooms IN SelectSeq(ord, mine)

DroppedNoUser(user, nk) == user = None

(* if not message.user or message.user.nick == self.nick: return *)
Dropped(user, nk) == user = None \/ user = nk

RecvPrivmsg ==
    /\ transport # None
    /\ \E user \in {AllNicks[1], Alice, None},
          params \in {<<>>} \cup {<<r>> : r \in Rooms}
                     \cup {<<r, t>> : r \in Rooms, t \in Texts} :
        LET msg == [user |-> user, command |-> PRIVMSG, params |-> params]
        IN IF Dropped(user, nick)
           THEN /\ trace' = <<>>
                /\ err' = NoError
                /\ last' = Recv(msg)
                /\ calls' = NoCalls
                /\ UNCHANGED modules
           ELSE IF Len(params) < 2
           THEN /\ trace' = <<>>
                /\ err' = "IndexError"
                /\ last' = Recv(msg)
                /\ calls' = NoCalls
                /\ UNCHANGED modules
           ELSE LET room == params[1]
                    text == params[2]
                    to == Offered(modules, module_order, room)
                    made == [n \in ModuleNames |->
                               IF n \in Range(to)
                               THEN OnMessageCalls(modules[n].cls, room, user,
                                                   text)
                               ELSE <<>>]
                IN /\ \A n \in Range(to) :
                        made[n] # <<>> => modules[n].mem < MaxMem
                   /\ modules' = [n \in DOMAIN modules |->
                                     IF made[n] # <<>>
                                     THEN [modules[n] EXCEPT !.mem = @ + 1]
                                     ELSE modules[n]]
                   /\ calls' = made
                   /\ trace' = <<[ev |-> "route", names |-> {},
                                   line |-> room]>>
                                 \o [i \in DOMAIN to |->
                                        [ev |-> "on_message",
                                         names |-> {to[i]}, line |-> text]]
                   /\ err' = NoError
                   /\ last' = Recv(msg)
    /\ pre' = Snapshot
    /\ UNCHANGED extra
    /\ streak' = 0
    /\ chunk' = <<>>
    /\ UNCHANGED <<nick_log, connect_info, nick_rotation, nick, ready, transport,
                   config, desired_state, state, module_order>>

(* a PRIVMSG sent to the bot itself: params[0] is the bot's nick, and that
   is what on_message is given as the room *)
RecvPrivmsgToBot ==
    /\ transport # None
    /\ nick # None
    /\ \E text \in Texts :
        LET msg == [user |-> Alice, command |-> PRIVMSG,
                    params |-> <<nick, text>>]
            room == msg.params[1]
            to == Offered(modules, module_order, room)
            made == [n \in ModuleNames |->
                       IF n \in Range(to)
                       THEN OnMessageCalls(modules[n].cls, room, msg.user,
                                           text)
                       ELSE <<>>]
        IN /\ ~Dropped(msg.user, nick)
           /\ \A n \in Range(to) :
                made[n] # <<>> => modules[n].mem < MaxMem
           /\ modules' = [n \in DOMAIN modules |->
                             IF made[n] # <<>>
                             THEN [modules[n] EXCEPT !.mem = @ + 1]
                             ELSE modules[n]]
           /\ calls' = made
           /\ trace' = <<[ev |-> "route", names |-> {}, line |-> room]>>
                         \o [i \in DOMAIN to |->
                                [ev |-> "on_message", names |-> {to[i]},
                                 line |-> text]]
           /\ err' = NoError
           /\ last' = Recv(msg)
    /\ pre' = Snapshot
    /\ streak' = 0
    /\ chunk' = <<>>
    /\ UNCHANGED extra
    /\ UNCHANGED <<nick_log, connect_info, nick_rotation, nick, ready, transport,
                   config, desired_state, state, module_order>>

----------------------------------------------------------------------------
(* Message.parse and User.parse: MESSAGE_RE and User.RE, step by step *)

Letters == Range(LowerLetters) \cup Range(UpperLetters)
Digits == {"0","1","2","3","4","5","6","7","8","9"}
IsDigit(c) == c \in Digits
(* the characters [^: \r\n] and [^\r\n] stop at *)
ParamStops == {":", " ", "\r", "\n"}
TrailingStops == {"\r", "\n"}

(* the last index of the longest run of characters of the set `good` that
   starts at i; i - 1 when the run is empty *)
SpanOf(s, i, good) ==
    CHOOSE j \in (i - 1)..Len(s) :
        /\ \A k \in i..j : s[k] \in good
        /\ j = Len(s) \/ s[j + 1] \notin good

(* the same for the longest run of characters outside the set `stops` *)
SpanUntil(s, i, stops) ==
    CHOOSE j \in (i - 1)..Len(s) :
        /\ \A k \in i..j : s[k] \notin stops
        /\ j = Len(s) \/ s[j + 1] \in stops

(* User.RE.match: (?P<nick>[^!]+)!(?P<user>[^@]+)@(?P<host>.+); the nick,
   or None when the prefix is None or does not match *)
UserParse(prefix) ==
    IF prefix = None THEN None
    ELSE LET n == SpanUntil(prefix, 1, {"!"})
             u == SpanUntil(prefix, n + 2, {"@"})
         IN IF /\ n >= 1 /\ n < Len(prefix)
               /\ u >= n + 2 /\ u < Len(prefix)
               /\ u + 2 <= Len(prefix) /\ prefix[u + 2] # "\n"
            THEN SubSeq(prefix, 1, n) ELSE None

(* response.CODE_TO_NAME for the replies the handler names *)
CodeToName(command) ==
    IF command = <<"0","0","4">> THEN RPL_MYINFO
    ELSE IF command = <<"4","3","2">> THEN ERR_ERRONEUSNICKNAME
    ELSE IF command = <<"4","3","3">> THEN ERR_NICKNAMEINUSE
    ELSE command

(* ( [^: \r\n]+)* from index i on: the words and the index after them *)
RECURSIVE ParseParams(_, _)
ParseParams(s, i) ==
    IF i + 1 <= Len(s) /\ s[i] = " " /\ s[i + 1] \notin ParamStops
    THEN LET j == SpanUntil(s, i + 1, ParamStops)
             more == ParseParams(s, j + 1)
         IN [words |-> <<SubSeq(s, i + 1, j)>> \o more.words,
             next |-> more.next]
    ELSE [words |-> <<>>, next |-> i]

Rejected ==
    [ok |-> FALSE, prefix |-> None, user |-> None, command |-> <<>>,
     params |-> <<>>]

(* Message.parse(line): the match must start at the first character; `$`
   with re.MULTILINE is the end of the text or the place before a "\n" *)
Parse(line) ==
    LET p == SpanUntil(line, 2, {" "})
        hasPrefix == /\ line # <<>> /\ line[1] = ":"
                     /\ p >= 2 /\ p < Len(line)
        prefix == IF hasPrefix THEN SubSeq(line, 2, p) ELSE None
        c0 == IF hasPrefix THEN p + 2 ELSE 1
        word == SpanOf(line, c0, Letters)
        c1 == IF word >= c0 THEN word
              ELSE IF c0 + 2 <= Len(line)
                       /\ \A k \in c0..(c0 + 2) : IsDigit(line[k])
              THEN c0 + 2 ELSE c0 - 1
        ps == ParseParams(line, c1 + 1)
        t0 == ps.next
        hasTrailing == /\ t0 + 2 <= Len(line)
                       /\ line[t0] = " " /\ line[t0 + 1] = ":"
                       /\ line[t0 + 2] \notin TrailingStops
        t1 == IF hasTrailing THEN SpanUntil(line, t0 + 2, TrailingStops)
              ELSE t0 - 1
        atEnd == t1 = Len(line) \/ line[t1 + 1] = "\n"
    IN IF c1 < c0 \/ ~atEnd THEN Rejected
       ELSE [ok |-> TRUE, prefix |-> prefix, user |-> UserParse(prefix),
             command |-> CodeToName(SubSeq(line, c0, c1)),
             params |-> ps.words
                 \o (IF hasTrailing THEN <<SubSeq(line, t0 + 2, t1)>>
                     ELSE <<>>)]

----------------------------------------------------------------------------
(* Message.__str__ followed by Message.parse *)

(* Message.__str__: ':prefix ' if self.prefix, the command in upper case,
   then ' ' and the params joined with ' ' if there are params *)
Str(m) ==
    (IF m.prefix # None /\ m.prefix # <<>>
     THEN <<":">> \o m.prefix \o <<" ">> ELSE <<>>)
        \o Format(m.command, m.params)

(* _make_message(command, *params): no prefix *)
MakeMessage(command, params) ==
    [prefix |-> None, command |-> command, params |-> params]
(* send_message(target, msg): _send_command('PRIVMSG', target, ':' + msg) *)
SendMessage(target, msg) == MakeMessage(PRIVMSG, <<target, <<":">> \o msg>>)

(* the messages the constructor is given *)
Prefixes == {None, <<"s","r","v">>, <<"a","l","!","u","@","h">>}
Commands == {PRIVMSG, JOIN, <<"j","o","i","n">>, <<"4","3","3">>, PONG}
Hello == <<"h","e","l","l","o">>
HelloWorld == Hello \o <<" ","w","o","r","l","d">>
ParamLists ==
    {<<>>, <<RoomNames[1]>>, <<RoomNames[1], RoomNames[2]>>,
     <<RoomNames[1], Hello>>, <<RoomNames[1], HelloWorld>>,
     <<RoomNames[1], <<":">> \o HelloWorld>>, <<HelloWorld>>,
     <<<<":","a","b","c">>>>}
Messages == [prefix : Prefixes, command : Commands, params : ParamLists]

RoundTripOf(m) ==
    /\ codec' = [text |-> Str(m), m |-> m, parsed |-> Parse(Str(m))]
    /\ UNCHANGED <<connect_info, nick_rotation, nick, ready, transport, config,
                   desired_state, state, modules, module_order, trace, err,
                   last, pre, streak, nick_log, calls, chunk, scheduled,
                   queue, threads, module_cache, peer, stream, disk>>

(* Message.parse(str(m)) of a message built with the constructor *)
RoundTrip == \E m \in Messages : RoundTripOf(m)

(* the same for the message send_message builds *)
RoundTripSent ==
    \E target \in Rooms \cup {Alice}, msg \in {Hello, HelloWorld} :
        RoundTripOf(SendMessage(target, msg))

----------------------------------------------------------------------------
(* IRCChatbot.data_received on a chunk of several lines *)

CRLF == <<"\r","\n">>
(* a byte that is not valid UTF-8 *)
BadByte == "<0xFF>"

RECURSIVE SplitLines(_)
(* str.split("\r\n") *)
SplitLines(s) ==
    IF \E i \in 1..(Len(s) - 1) : s[i] = "\r" /\ s[i + 1] = "\n"
    THEN LET i == CHOOSE j \in 1..(Len(s) - 1) :
                      /\ s[j] = "\r" /\ s[j + 1] = "\n"
                      /\ \A k \in 1..(j - 1) : ~(s[k] = "\r" /\ s[k + 1] = "\n")
         IN <<SubSeq(s, 1, i - 1)>> \o SplitLines(SubSeq(s, i + 2, Len(s)))
    ELSE <<s>>
NonEmpty(l) == l # <<>>

(* the lines the model sends in chunks *)
PingLine == <<"P","I","N","G"," ",":","a","b","c">>
BarePing == <<"P","I","N","G">>
NickInUseLine == <<"4","3","3">>
BareJoin == <<"J","O","I","N"," ","#","x">>
ShortKick == <<":","a","l","!","u","@","h"," ","K","I","C","K"," ","#","x">>
ShortPrivmsg == <<":","a","l","!","u","@","h"," ","P","R","I","V","M","S","G"," ","#","x">>
PrefixOnly == <<":","s","r","v">>
TwoSpaces == <<"P","I","N","G"," "," ","x">>
TwoDigits == <<"1","2">>
LineTexts == {PingLine, BarePing, NickInUseLine, BareJoin, ShortKick,
              ShortPrivmsg, PrefixOnly, TwoSpaces, TwoDigits}
Chunks ==
    UNION {[1..n -> LineTexts] : n \in 1..MaxLines}
DataOf(lines) == JoinWith(lines, CRLF) \o CRLF
InputData ==
    {DataOf(ls) : ls \in Chunks} \cup {<<BadByte>> \o DataOf(<<PingLine>>)}

(* Message.parse and the split computed once for each input *)
ParseTable == [l \in LineTexts |-> Parse(l)]
Parsed(line) == IF line \in LineTexts THEN ParseTable[line] ELSE Parse(line)
LinesTable == [d \in InputData |-> SelectSeq(SplitLines(d), NonEmpty)]

(* the branches of _handle_irc_message that need neither the module map
   nor the rooms: PING, the nick errors, and the messages that fail before
   they reach on_join_room, on_leave_room or on_message *)
Supported(msg, nk) ==
    \/ msg.command = PING
    \/ msg.command \in NICK_ERRORS
    \/ msg.command = JOIN /\ msg.user = None
    \/ msg.command = KICK /\ Len(msg.params) < 2
    \/ msg.command = PRIVMSG
          /\ (Dropped(msg.user, nk) \/ Len(msg.params) < 2)

HandleLine(ci, st, msg) ==
    LET same(lines, e) == [nick_rotation |-> st.nick_rotation,
                           nick |-> st.nick, lines |-> lines, err |-> e]
    IN IF msg.command \in NICK_ERRORS
       THEN TryNextNick(ci.nicks, st.nick_rotation, st.nick)
       ELSE IF msg.command = PING
       THEN IF msg.params = <<>> THEN same(<<>>, "UnboundLocalError")
            ELSE same(<<Format(PONG, <<PongParam(msg.params[1])>>)>>, NoError)
       ELSE IF msg.command = JOIN THEN same(<<>>, "AttributeError")
       ELSE IF msg.command = KICK THEN same(<<>>, "IndexError")
       ELSE IF msg.command = PRIVMSG /\ ~Dropped(msg.user, st.nick)
       THEN same(<<>>, "IndexError")
       ELSE same(<<>>, NoError)

Entry(line, outcome, out) == [line |-> line, outcome |-> outcome, out |-> out]

RunLinesStop(ci, st, lines) ==
    [nick_rotation |-> st.nick_rotation, nick |-> st.nick, err |-> NoError,
     log |-> [i \in DOMAIN lines |->
                 Entry(lines[i], IF i = 1 THEN "discarded" ELSE "skipped",
                       <<>>)]]

(* for line in filter(len, lines): parse; a ValueError is logged and the
   loop goes on; any other exception leaves the loop and data_received *)
RECURSIVE RunLines(_, _, _)
RunLines(ci, st, lines) ==
    IF lines = <<>>
    THEN [nick_rotation |-> st.nick_rotation, nick |-> st.nick,
          err |-> NoError, log |-> <<>>]
    ELSE LET m == Parsed(Head(lines))
         IN IF ~m.ok
            THEN LET rest == RunLines(ci, st, Tail(lines))
                 IN [rest EXCEPT
                       !.log = <<Entry(Head(lines), "discarded", <<>>)>> \o @]
            ELSE LET h == HandleLine(ci, st, m)
                 IN IF h.err # NoError
                    THEN [nick_rotation |-> h.nick_rotation, nick |-> h.nick,
                          err |-> h.err,
                          log |-> <<Entry(Head(lines), "raised", h.lines)>>
                                    \o [i \in 1..(Len(lines) - 1) |->
                                          Entry(lines[i + 1], "skipped",
                                                <<>>)]]
                    ELSE LET rest == RunLines(ci, h, Tail(lines))
                         IN [rest EXCEPT
                               !.log = <<Entry(Head(lines), "handled",
                                               h.lines)>> \o @]

RECURSIVE Flatten(_)
Flatten(seqs) ==
    IF seqs = <<>> THEN <<>> ELSE Head(seqs) \o Flatten(Tail(seqs))
LogOut(log) == Flatten([i \in DOMAIN log |-> log[i].out])

(* data.decode() raises on the bad byte before any line is looked at *)
DataReceived ==
    /\ transport # None
    /\ \E data \in InputData :
        IF \E i \in DOMAIN data : data[i] = BadByte
        THEN /\ err' = "UnicodeDecodeError"
             /\ trace' = <<>>
             /\ chunk' = <<Entry(data, "undecodable", <<>>)>>
             /\ UNCHANGED <<nick_rotation, nick, nick_log>>
        ELSE \E lines \in {LinesTable[data]} :
             \E r \in {RunLines(connect_info,
                                [nick_rotation |-> nick_rotation,
                                 nick |-> nick], lines)} :
                /\ \A i \in DOMAIN lines :
                     Parsed(lines[i]).ok => Supported(Parsed(lines[i]), nick)
                /\ err' = r.err
                /\ trace' = Sends(LogOut(r.log))
                /\ chunk' = r.log
                /\ nick_rotation' = r.nick_rotation
                /\ nick' = r.nick
                /\ nick_log' = nick_log \o NicksWritten(LogOut(r.log))
    /\ last' = Op("data_received")
    /\ pre' = Snapshot
    /\ UNCHANGED extra
    /\ streak' = 0
    /\ calls' = NoCalls
    /\ UNCHANGED <<connect_info, ready, transport, config, desired_state,
                   state, modules, module_order>>

----------------------------------------------------------------------------
(* data_received on the chunks of one byte stream *)

(* the byte streams the server sends *)
Streams == {DataOf(<<PingLine>>), DataOf(<<PingLine, PingLine>>)}

(* a command none of the branches of the two _handle_irc_message names *)
Unnamed(msg) ==
    Upper(msg.command) \notin {JOIN, KICK, PART, PRIVMSG, RPL_MYINFO}

(* the messages of a log that reached _handle_irc_message *)
HandledBy(log) ==
    LET reached(e) == e.outcome \in {"handled", "raised"}
        es == SelectSeq(log, reached)
    IN [i \in DOMAIN es |->
           [command |-> Parsed(es[i].line).command,
            params |-> Parsed(es[i].line).params]]

(* data_received(data) with the first k bytes of a stream, then with the
   bytes that are left: each call decodes and splits its own data, nothing
   is kept between calls *)
DataReceivedStream ==
    /\ transport # None
    /\ \E src \in (IF stream.rest = <<>> THEN Streams ELSE {stream.rest}) :
       \E k \in (IF stream.rest = <<>> THEN 1..Len(src) ELSE {Len(src)}) :
       \E lines \in {SelectSeq(SplitLines(SubSeq(src, 1, k)), NonEmpty)} :
       \E r \in {RunLines(connect_info,
                           [nick_rotation |-> nick_rotation,
                            nick |-> nick], lines)} :
           /\ \A i \in DOMAIN lines :
                Parsed(lines[i]).ok =>
                    \/ Supported(Parsed(lines[i]), nick)
                    \/ Unnamed(Parsed(lines[i]))
           /\ err' = r.err
           /\ trace' = Sends(LogOut(r.log))
           /\ chunk' = r.log
           /\ nick_rotation' = r.nick_rotation
           /\ nick' = r.nick
           /\ nick_log' = nick_log \o NicksWritten(LogOut(r.log))
           /\ stream' =
                IF stream.rest = <<>>
                THEN [whole |-> src, rest |-> SubSeq(src, k + 1, Len(src)),
                      handled |-> HandledBy(r.log),
                      st0 |-> [nick_rotation |-> nick_rotation,
                               nick |-> nick]]
                ELSE [stream EXCEPT
                        !.rest = SubSeq(src, k + 1, Len(src)),
                        !.handled = @ \o HandledBy(r.log)]
    /\ last' = Op("data_received")
    /\ pre' = Snapshot
    /\ UNCHANGED <<codec, scheduled, queue, threads, module_cache, peer,
                   disk>>
    /\ streak' = 0
    /\ calls' = NoCalls
    /\ UNCHANGED <<connect_info, ready, transport, config, desired_state,
                   state, modules, module_order>>

----------------------------------------------------------------------------
(* data_received on a chunk whose first line is a user message, with module
   handlers that may raise *)

FullPrivmsg ==
    <<":","a","l","!","u","@","h"," ","P","R","I","V","M","S","G"," ",
      "#","x"," ",":","!","h","e","l","p"," ","m","e">>
DispatchChunks == {<<FullPrivmsg>>, <<FullPrivmsg, PingLine>>}

(* for mod in self.modules: if room in mod.rooms: mod.on_message(...), with
   no try around the call: the modules reached when the handler of the k-th
   offered module raises (k = 0: no handler raises) *)
Reached(to, k) == IF k = 0 THEN to ELSE SubSeq(to, 1, k)

(* Message.parse of the first line of each chunk, computed once *)
DispatchTable == [l \in {ls[1] : ls \in DispatchChunks} |-> Parse(l)]

(* the exception of a handler leaves Chatbot.on_message, _handle_irc_message
   and the loop of data_received, whose try covers Message.parse alone *)
DataReceivedDispatch ==
    /\ transport # None
    /\ \E lines \in DispatchChunks :
       \E msg \in {DispatchTable[lines[1]]} :
       \E room \in {msg.params[1]} :
       \E text \in {msg.params[2]} :
       \E to \in {Offered(modules, module_order, room)} :
       \E k \in 0..Len(to) :
       \E reached \in {Reached(to, k)} :
       \E made \in {[n \in ModuleNames |->
                        IF n \in Range(reached)
                        THEN OnMessageCalls(modules[n].cls, room, msg.user,
                                            text)
                        ELSE <<>>]} :
       \E rest \in {RunLines(connect_info,
                              [nick_rotation |-> nick_rotation,
                               nick |-> nick], Tail(lines))} :
           /\ msg.ok /\ ~Dropped(msg.user, nick)
           /\ k # 0 => made[to[k]] # <<>>
           /\ \A n \in Range(reached) :
                made[n] # <<>> => modules[n].mem < MaxMem
           /\ modules' = [n \in DOMAIN modules |->
                             IF made[n] # <<>>
                             THEN [modules[n] EXCEPT !.mem = @ + 1]
                             ELSE modules[n]]
           /\ calls' = made
           /\ trace' = <<[ev |-> "route", names |-> {}, line |-> room]>>
                         \o [i \in DOMAIN reached |->
                                [ev |-> "on_message",
                                 names |-> {reached[i]}, line |-> text]]
                         \o (IF k # 0 THEN <<>>
                             ELSE Sends(LogOut(rest.log)))
           /\ err' = IF k # 0 THEN "HandlerError" ELSE rest.err
           /\ chunk' =
                IF k # 0
                THEN <<Entry(lines[1], "raised", <<>>)>>
                       \o [i \in 1..(Len(lines) - 1) |->
                              Entry(lines[i + 1], "skipped", <<>>)]
                ELSE <<Entry(lines[1], "handled", <<>>)>> \o rest.log
           /\ last' = Recv([user |-> msg.user, command |-> msg.command,
                            params |-> msg.params])
    /\ pre' = Snapshot
    /\ UNCHANGED extra
    /\ streak' = 0
    /\ UNCHANGED <<nick_log, connect_info, nick_rotation, nick, ready, transport,
                   config, desired_state, state, module_order>>

----------------------------------------------------------------------------
(* Reconciliation called from outside the protocol handler *)

(* the part of a pass that depends on the transport: the module pass
   completes, then the first write on a transport that is None raises *)
RunPass(p) ==
    /\ modules' = p.mp.modules
    /\ module_order' = p.mp.order
    /\ calls' = p.mp.calls
    /\ chunk' = <<>>
    /\ state' = [state EXCEPT !.modules = p.mp.state_modules]
    /\ trace' = p.mp.events \o Sends(Written(transport, p.lines))
    /\ err' = SendErr(transport, p.lines)

(* JaykChatbot.update_config(new_config) *)
UpdateConfigWith(c) ==
    /\ LET cfg == EnabledOnly(c)
           des == FromConfig(cfg)
       IN /\ config' = cfg
          /\ desired_state' = des
          /\ \E p \in Passes(cfg, state, des, modules, module_order, ready) :
               RunPass(p)
          /\ streak' = IF cfg = config THEN Bump(streak) ELSE 1
    /\ last' = OpWith("update_config", c)
    /\ pre' = Snapshot
    /\ UNCHANGED extra
    /\ UNCHANGED <<nick_log, connect_info, nick_rotation, nick, ready, transport>>

UpdateConfig == \E c \in InputConfigs : UpdateConfigWith(c)

(* update_config with the configurations of the dispatch model *)
UpdateConfigMod == \E c \in ModConfigs : UpdateConfigWith(c)

(* JaykIRCChatbot.on_ready: self.match_desired_state() *)
OnReady ==
    /\ \E p \in Passes(config, state, desired_state, modules, module_order,
                        ready) :
        RunPass(p)
    /\ streak' = Bump(streak)
    /\ last' = Op("on_ready")
    /\ pre' = Snapshot
    /\ UNCHANGED extra
    /\ UNCHANGED <<nick_log, connect_info, nick_rotation, nick, ready, transport,
                   config, desired_state>>

----------------------------------------------------------------------------
(* ClientProtocol._schedule_command and the event loop's timers *)

MaxTimers == 2

(* loop.call_later(timeout, partial(self._send_command, command, *params));
   the handle call_later returns is dropped.  The callers are handlers of
   a connection that is up. *)
ScheduleCommand ==
    /\ transport # None
    /\ Len(scheduled) < MaxTimers
    /\ \E r \in Rooms :
        scheduled' = Append(scheduled, [command |-> JOIN, params |-> <<r>>])
    /\ trace' = <<>>
    /\ err' = NoError
    /\ last' = Op("_schedule_command")
    /\ pre' = Snapshot
    /\ streak' = 0
    /\ calls' = NoCalls
    /\ chunk' = <<>>
    /\ UNCHANGED <<disk, stream, codec, queue, threads, module_cache, peer>>
    /\ UNCHANGED <<nick_log, connect_info, nick_rotation, nick, ready, transport,
                   config, desired_state, state, modules, module_order>>

(* the loop runs a timer that is due: _send_command(command, *params), on
   whatever self.transport is by then.  The timeouts differ, so any of the
   pending timers may be the one. *)
TimerFires ==
    /\ \E i \in DOMAIN scheduled :
        LET lines == <<Format(scheduled[i].command, scheduled[i].params)>>
        IN /\ scheduled' = SubSeq(scheduled, 1, i - 1)
                              \o SubSeq(scheduled, i + 1, Len(scheduled))
           /\ trace' = Sends(Written(transport, lines))
           /\ err' = SendErr(transport, lines)
    /\ last' = Op("call_later")
    /\ pre' = Snapshot
    /\ streak' = 0
    /\ calls' = NoCalls
    /\ chunk' = <<>>
    /\ UNCHANGED <<disk, stream, codec, queue, threads, module_cache, peer>>
    /\ UNCHANGED <<nick_log, connect_info, nick_rotation, nick, ready, transport,
                   config, desired_state, state, modules, module_order>>

----------------------------------------------------------------------------
(* The file watcher (jayk/cli/util.py) next to the event loop.  Two threads
   run code of the bot: "reactor", the thread of the asyncio loop, and
   "watcher", the FileListener thread.  A thread inside match_desired_state
   is at "modules" (about to run match_desired_modules) or at "rooms"
   (about to run match_desired_rooms).  The callback FileListener is given
   is the bot's update_config with the configuration read anew. *)

MaxQueue == 2

WatchConfigs ==
    {DataConfig,
     [n \in ModuleNames |->
         [enabled |-> n = ModuleNameSeq[1], rooms |-> Rooms, path |-> None,
          params |-> NoParams]]}

At(t, where) == [threads EXCEPT ![t] = where]

(* FileProcess.run, in its own process: self.queue.put(event) *)
FileChanged ==
    /\ queue < MaxQueue
    /\ queue' = queue + 1
    /\ UNCHANGED <<connect_info, nick_rotation, nick, ready, transport, config,
                   desired_state, state, modules, module_order, trace, err,
                   last, pre, streak, nick_log, calls, chunk, disk, stream, codec,
                   scheduled, threads, module_cache, peer>>

(* FileListener.run, on the FileListener thread: event = self.queue.get();
   an event of an ignored type is dropped; for any other self.callback() is
   called there and then, and update_config sets config and desired_state
   and enters match_desired_state *)
ListenerRun ==
    /\ queue > 0
    /\ threads["watcher"] = "idle"
    /\ queue' = queue - 1
    /\ \/ UNCHANGED <<config, desired_state, threads, last, pre, trace, err,
                      streak, calls>>
       \/ \E c \in WatchConfigs :
            /\ config' = EnabledOnly(c)
            /\ desired_state' = FromConfig(EnabledOnly(c))
            /\ threads' = At("watcher", "modules")
            /\ last' = OpWith("update_config", c)
            /\ pre' = Snapshot
            /\ trace' = <<>>
            /\ err' = NoError
            /\ streak' = 0
            /\ calls' = NoCalls
    /\ UNCHANGED <<connect_info, nick_rotation, nick, ready, transport, state,
                   modules, module_order, nick_log, chunk, disk, stream, codec, scheduled,
                   module_cache, peer>>

(* the loop calls connection_made between two callbacks *)
ReactorConnect == threads["reactor"] = "idle" /\ ConnectionMade

(* the loop calls data_received with RPL_MYINFO: self.__ready = True, and
   match_desired_state is entered *)
ReactorRecv ==
    /\ transport # None
    /\ threads["reactor"] = "idle"
    /\ ready' = TRUE
    /\ threads' = At("reactor", "modules")
    /\ last' = Recv([user |-> None, command |-> RPL_MYINFO, params |-> <<>>])
    /\ pre' = Snapshot
    /\ trace' = <<>>
    /\ err' = NoError
    /\ streak' = 0
    /\ calls' = NoCalls
    /\ UNCHANGED <<connect_info, nick_rotation, nick, transport, config,
                   desired_state, state, modules, module_order, nick_log,
                   chunk, disk, stream, codec, scheduled, queue, module_cache, peer>>

(* match_desired_modules run by thread t, on the state as it is by then *)
MatchModules(t) ==
    /\ threads[t] = "modules"
    /\ \E oa \in Orders((DOMAIN config) \ state.modules) :
        LET mp == ModulesPass(config, state.modules, modules, module_order,
                              oa)
        IN /\ modules' = mp.modules
           /\ module_order' = mp.order
           /\ state' = [state EXCEPT !.modules = mp.state_modules]
           /\ calls' = mp.calls
           /\ trace' = mp.events
    /\ threads' = At(t, "rooms")
    /\ err' = NoError
    /\ UNCHANGED <<connect_info, nick_rotation, nick, ready, transport, config,
                   desired_state, last, pre, streak, nick_log, chunk, disk, stream, codec,
                   scheduled, queue, module_cache, peer>>

(* match_desired_rooms run by thread t; match_desired_state returns *)
MatchRooms(t) ==
    /\ threads[t] = "rooms"
    /\ \E rl \in RoomsPass(ready, state.rooms, desired_state.rooms) :
        /\ trace' = Sends(Written(transport, rl))
        /\ err' = SendErr(transport, rl)
    /\ threads' = At(t, "idle")
    /\ UNCHANGED <<connect_info, nick_rotation, nick, ready, transport, config,
                   desired_state, state, modules, module_order, last, pre,
                   streak, nick_log, calls, chunk, disk, stream, codec, scheduled, queue,
                   module_cache, peer>>

----------------------------------------------------------------------------
(* JaykChatbot.__module_cache.  The dict is made once, in the class body;
   get_module reads JaykChatbot.__module_cache and stores into
   self.__module_cache, which is the same dict for every bot of the process.
   `peer` is the module map of a second bot. *)

(* get_module: the cached class if the path is cached, else the class the
   file holds *)
GetModuleCached(cache, path) ==
    IF path \in DOMAIN cache THEN cache[path] ELSE Files[path]
(* the cache after get_module has been called for the paths *)
CacheAfter(cache, paths) ==
    [p \in (DOMAIN cache) \cup paths |-> GetModuleCached(cache, p)]

(* update_config on this bot: the pass loads the modules of to_add through
   get_module *)
UpdateConfigCached ==
    /\ \E c \in InputConfigs :
        LET cfg == EnabledOnly(c)
            des == FromConfig(cfg)
            to_add == (DOMAIN cfg) \ state.modules
        IN /\ config' = cfg
           /\ desired_state' = des
           /\ \E p \in Passes(cfg, state, des, modules, module_order, ready) :
                /\ modules' = p.mp.modules
                /\ module_order' = p.mp.order
                /\ calls' = p.mp.calls
                /\ state' = [state EXCEPT !.modules = p.mp.state_modules]
                /\ trace' = p.mp.events \o Sends(Written(transport, p.lines))
                /\ err' = SendErr(transport, p.lines)
           /\ module_cache' =
                CacheAfter(module_cache,
                           {ModulePath(n, cfg[n]) : n \in to_add})
           /\ streak' = IF cfg = config THEN Bump(streak) ELSE 1
           /\ last' = OpWith("update_config", c)
    /\ pre' = Snapshot
    /\ chunk' = <<>>
    /\ UNCHANGED <<disk, stream, codec, scheduled, queue, threads, peer>>
    /\ UNCHANGED <<nick_log, connect_info, nick_rotation, nick, ready, transport>>

(* load_module on the second bot *)
PeerLoad ==
    /\ \E n \in ModuleNames, rooms \in {{RoomNames[1]}} :
        LET path == <<n>> \o PySuffix
        IN /\ peer' = [m \in (DOMAIN peer) \cup {n} |->
                          IF m = n
                          THEN [rooms |-> rooms, params |-> NoParams,
                                cls |-> GetModuleCached(module_cache, path),
                                mem |-> 0]
                          ELSE peer[m]]
           /\ module_cache' = CacheAfter(module_cache, {path})
    /\ UNCHANGED <<connect_info, nick_rotation, nick, ready, transport, config,
                   desired_state, state, modules, module_order, trace, err,
                   last, pre, streak, nick_log, calls, chunk, disk, stream, codec,
                   scheduled, queue, threads>>

----------------------------------------------------------------------------
(* match_desired_modules when a load may fail.  None of its loops has a try:
   the first exception leaves the loop, match_desired_modules (before
   state.modules is assigned), match_desired_state (before
   match_desired_rooms) and the caller.  After such a run the keys of the map
   and state.modules may differ, and pop or the lookup of a name that is not
   in the map raises KeyError. *)

(* a file that cannot be imported: util.load_module raises *)
BrokenPath == <<"b","a","d">> \o PySuffix

(* the place of the first element of seq that is in S, 0 when there is none *)
FirstIn(seq, S) ==
    IF \E i \in DOMAIN seq : seq[i] \in S
    THEN CHOOSE i \in DOMAIN seq :
             seq[i] \in S /\ \A k \in 1..(i - 1) : seq[k] \notin S
    ELSE 0
(* the elements of seq a loop has finished with when it fails at place f *)
DoneBefore(seq, f) ==
    IF f = 0 THEN Range(seq) ELSE {seq[i] : i \in 1..(f - 1)}

(* orm, oa and ou are the orders in which the three loops visit to_remove,
   to_add and to_update *)
ModulesRun(cfg, st_modules, mods, ord, orm, oa, ou) ==
    LET to_add == Range(oa)
        to_remove == Range(orm)
        to_update == Range(ou)
        f1 == FirstIn(orm, to_remove \ DOMAIN mods)
        removed == DoneBefore(orm, f1)
        mods1 == [n \in (DOMAIN mods) \ removed |-> mods[n]]
        ord1 == RemoveNames(ord, removed)
        broken == {n \in to_add : ModulePath(n, cfg[n]) \notin DOMAIN Files}
        f2 == IF f1 # 0 THEN 1 ELSE FirstIn(oa, broken)
        loaded == IF f1 # 0 THEN {} ELSE DoneBefore(oa, f2)
        mods2 == [n \in (DOMAIN mods1) \cup loaded |->
                     IF n \in loaded THEN LoadModule(n, cfg[n]) ELSE mods1[n]]
        fresh(n) == n \in loaded /\ n \notin Range(ord1)
        ord2 == ord1 \o SelectSeq(oa, fresh)
        f3 == IF f1 # 0 \/ f2 # 0 THEN 1
              ELSE FirstIn(ou, to_update \ DOMAIN mods2)
        updated == IF f1 # 0 \/ f2 # 0 THEN {} ELSE DoneBefore(ou, f3)
        mods3 == [n \in DOMAIN mods2 |->
                     IF n \in updated THEN UpdateModule(mods2[n], cfg[n])
                     ELSE mods2[n]]
        done == f1 = 0 /\ f2 = 0 /\ f3 = 0
    IN [modules |-> mods3,
        order |-> ord2,
        state_modules |-> IF done THEN DOMAIN mods3 ELSE st_modules,
        err |-> IF f1 # 0 THEN "KeyError"
                ELSE IF f2 # 0 THEN "LoadError"
                ELSE IF f3 # 0 THEN "KeyError" ELSE NoError,
        events |-> <<ModEv("unload", removed), ModEv("load", loaded),
                     ModEv("update", updated)>>,
        calls |-> [n \in ModuleNames |->
                      IF n \in removed THEN UnloadCalls
                      ELSE IF n \in loaded THEN LoadCalls(cfg[n])
                      ELSE IF n \in updated THEN UpdateCalls(cfg[n])
                      ELSE <<>>]]

(* match_desired_state: match_desired_rooms runs only when
   match_desired_modules has returned *)
PassesLoad(cfg, st, des, mods, ord, rdy) ==
    UNION {{[mp |-> mp, lines |-> rl] :
               rl \in (IF mp.err # NoError THEN {<<>>}
                       ELSE RoomsPass(rdy, st.rooms, des.rooms))} :
           mp \in {ModulesRun(cfg, st.modules, mods, ord, orm, oa, ou) :
                      orm \in Orders(st.modules \ DOMAIN cfg),
                      oa \in Orders((DOMAIN cfg) \ st.modules),
                      ou \in Orders((DOMAIN cfg) \cap st.modules)}}

RunPassLoad(p) ==
    /\ modules' = p.mp.modules
    /\ module_order' = p.mp.order
    /\ calls' = p.mp.calls
    /\ chunk' = <<>>
    /\ state' = [state EXCEPT !.modules = p.mp.state_modules]
    /\ trace' = p.mp.events \o Sends(Written(transport, p.lines))
    /\ err' = IF p.mp.err # NoError THEN p.mp.err
              ELSE SendErr(transport, p.lines)

(* the configurations with files that may not load: each module listens in
   the first room, from <name>.py or from the broken file, or is disabled *)
LoadEntries ==
    [enabled : {TRUE}, rooms : {{RoomNames[1]}, Rooms},
     path : {None, BrokenPath}, params : {NoParams}]
        \cup [enabled : {FALSE}, rooms : {Rooms}, path : {None},
              params : {NoParams}]
LoadConfigs == [ModuleNames -> LoadEntries]

(* update_config with one of these configurations *)
UpdateConfigLoad ==
    /\ \E c \in LoadConfigs :
        LET cfg == EnabledOnly(c)
            des == FromConfig(cfg)
        IN /\ config' = cfg
           /\ desired_state' = des
           /\ \E p \in PassesLoad(cfg, state, des, modules, module_order,
                                  ready) :
                RunPassLoad(p)
           /\ streak' = IF cfg = config THEN Bump(streak) ELSE 1
           /\ last' = OpWith("update_config", c)
    /\ pre' = Snapshot
    /\ UNCHANGED extra
    /\ UNCHANGED <<nick_log, connect_info, nick_rotation, nick, ready, transport>>

(* RPL_MYINFO with the same module pass *)
RecvMyInfoLoad ==
    /\ transport # None
    /\ ready' = TRUE
    /\ \E p \in PassesLoad(config, state, desired_state, modules,
                            module_order, TRUE) :
        RunPassLoad(p)
    /\ last' = Recv([user |-> None, command |-> RPL_MYINFO, params |-> <<>>])
    /\ pre' = Snapshot
    /\ UNCHANGED extra
    /\ streak' = 1
    /\ UNCHANGED <<nick_log, connect_info, nick_rotation, nick, transport, config,
                   desired_state>>

----------------------------------------------------------------------------

Next ==
    \/ ConnectionMade
    \/ ConnectionLost
    \/ RecvMyInfo
    \/ RecvNickError
    \/ RecvPing
    \/ RecvJoin
    \/ RecvKick
    \/ RecvPart
    \/ RecvOther
    \/ UpdateConfig
    \/ OnReady

Spec == Init /\ [][Next]_vars

(* the connection alone: handshake, nick rotation, keep-alive *)
NextConn ==
    \/ ConnectionMade
    \/ ConnectionLost
    \/ RecvMyInfo
    \/ RecvNickError
    \/ RecvPing

SpecConn == InitConn /\ [][NextConn]_vars

(* the modules: configuration changes and the dispatch of user messages *)
NextMod ==
    \/ ConnectionMade
    \/ UpdateConfigMod
    \/ RecvPrivmsg

SpecMod == Init /\ [][NextMod]_vars

(* the connection fed with chunks of several lines *)
NextData ==
    \/ ConnectionMade
    \/ ConnectionLost
    \/ RecvMyInfo
    \/ DataReceived

SpecData == InitData /\ [][NextData]_vars

(* the connection fed with one byte stream in chunks *)
NextFrame ==
    \/ ConnectionMade
    \/ DataReceivedStream

SpecFrame == InitData /\ [][NextFrame]_vars

(* the codec alone *)
NextCodec ==
    \/ RoundTrip
    \/ RoundTripSent

SpecCodec == InitData /\ [][NextCodec]_vars

(* the connection and its timers *)
NextTimer ==
    \/ ConnectionMade
    \/ ConnectionLost
    \/ RecvMyInfo
    \/ ScheduleCommand
    \/ TimerFires

SpecTimer == InitData /\ [][NextTimer]_vars

(* the event loop and the file watcher *)
NextWatch ==
    \/ ReactorConnect
    \/ ReactorRecv
    \/ FileChanged
    \/ ListenerRun
    \/ \E t \in {"reactor", "watcher"} : MatchModules(t)
    \/ \E t \in {"reactor", "watcher"} : MatchRooms(t)

SpecWatch == InitData /\ [][NextWatch]_vars

(* two bots of one process and the class-level module cache *)
InitShared == Constructed({SubSeq(AllNicks, 1, 1)}, {None}, {<<>>})

NextShared ==
    \/ ConnectionMade
    \/ RecvMyInfo
    \/ UpdateConfigCached
    \/ PeerLoad

SpecShared == InitShared /\ [][NextShared]_vars

----------------------------------------------------------------------------
(* get_module while the module files change on disk.  A class carries the
   version of the file it was imported from, so that the class of the cache
   and the class a fresh import would produce can be told apart. *)

MaxEdits == 1
MaxImports == 2

(* util.load_module: the class the file at path defines now *)
ImportFile(d, path) ==
    [commands |-> Files[path].commands,
     on_message |-> Files[path].on_message,
     version |-> d[path].version]

(* get_module without the look-up in the cache *)
GetModuleReimport(cache, d, path) ==
    [cls |-> ImportFile(d, path), imported |-> TRUE]
(* get_module: the cached class when the path is a key of the cache, else the
   class of an import, which is then stored under the path *)
GetModuleDisk(cache, d, path) ==
    IF path \in DOMAIN cache
    THEN [cls |-> cache[path], imported |-> FALSE]
    ELSE [cls |-> ImportFile(d, path), imported |-> TRUE]

(* the cache after get_module has been called for the paths *)
CacheDisk(cache, d, paths) ==
    [p \in (DOMAIN cache) \cup paths |->
        IF p \in paths THEN GetModuleDisk(cache, d, p).cls ELSE cache[p]]
(* the imports these calls have made *)
DiskAfter(cache, d, paths) ==
    [p \in DOMAIN d |->
        IF p \in paths /\ GetModuleDisk(cache, d, p).imported
        THEN [version |-> d[p].version,
              imports |-> IF d[p].imports < MaxImports
                          THEN d[p].imports + 1 ELSE MaxImports,
              first |-> IF d[p].imports = 0 THEN d[p].version
                        ELSE d[p].first]
        ELSE d[p]]

(* a module file is edited *)
FileEdited ==
    /\ \E p \in DOMAIN disk :
        /\ disk[p].version < MaxEdits
        /\ disk' = [disk EXCEPT ![p].version = @ + 1]
        /\ last' = OpWith("edit", p)
    /\ pre' = Snapshot
    /\ trace' = <<>>
    /\ err' = NoError
    /\ chunk' = <<>>
    /\ streak' = 0
    /\ UNCHANGED <<connect_info, nick_rotation, nick, ready, transport, config,
                   desired_state, state, modules, module_order, nick_log,
                   calls, stream, codec, scheduled, queue, threads,
                   module_cache, peer>>

(* the configurations of this bot here: each module listens in the first room
   or is disabled *)
CacheConfigs ==
    [ModuleNames ->
        [enabled : BOOLEAN, rooms : {{RoomNames[1]}}, path : {None},
         params : {NoParams}]]

(* update_config on this bot: the modules of to_add get their class from
   get_module *)
UpdateConfigDisk ==
    /\ \E c \in CacheConfigs :
        LET cfg == EnabledOnly(c)
            des == FromConfig(cfg)
            to_add == (DOMAIN cfg) \ state.modules
            paths == {ModulePath(n, cfg[n]) : n \in to_add}
        IN /\ config' = cfg
           /\ desired_state' = des
           /\ \E p \in Passes(cfg, state, des, modules, module_order, ready) :
                /\ modules' =
                     [n \in DOMAIN p.mp.modules |->
                         IF n \in to_add
                         THEN [p.mp.modules[n] EXCEPT
                                  !.cls = GetModuleDisk(module_cache, disk,
                                              ModulePath(n, cfg[n])).cls]
                         ELSE p.mp.modules[n]]
                /\ module_order' = p.mp.order
                /\ calls' = p.mp.calls
                /\ state' = [state EXCEPT !.modules = p.mp.state_modules]
                /\ trace' = p.mp.events \o Sends(Written(transport, p.lines))
                /\ err' = SendErr(transport, p.lines)
           /\ module_cache' = CacheDisk(module_cache, disk, paths)
           /\ disk' = DiskAfter(module_cache, disk, paths)
           /\ streak' = IF cfg = config THEN Bump(streak) ELSE 1
           /\ last' = OpWith("update_config", c)
    /\ pre' = Snapshot
    /\ chunk' = <<>>
    /\ UNCHANGED <<stream, codec, scheduled, queue, threads, peer>>
    /\ UNCHANGED <<nick_log, connect_info, nick_rotation, nick, ready, transport>>

(* load_module on the second bot *)
PeerLoadDisk ==
    /\ \E n \in ModuleNames, rooms \in {{RoomNames[1]}} :
        LET path == <<n>> \o PySuffix
        IN /\ peer' = [m \in (DOMAIN peer) \cup {n} |->
                          IF m = n
                          THEN [rooms |-> rooms, params |-> NoParams,
                                cls |-> GetModuleDisk(module_cache, disk,
                                                      path).cls,
                                mem |-> 0]
                          ELSE peer[m]]
           /\ module_cache' = CacheDisk(module_cache, disk, {path})
           /\ disk' = DiskAfter(module_cache, disk, {path})
           /\ last' = OpWith("peer_load", n)
    /\ pre' = Snapshot
    /\ trace' = <<>>
    /\ err' = NoError
    /\ chunk' = <<>>
    /\ streak' = 0
    /\ UNCHANGED <<connect_info, nick_rotation, nick, ready, transport, config,
                   desired_state, state, modules, module_order, nick_log,
                   calls, stream, codec, scheduled, queue, threads>>

(* two bots of one process while the module files are edited *)
NextCache ==
    \/ FileEdited
    \/ UpdateConfigDisk
    \/ PeerLoadDisk

SpecCache == InitShared /\ [][NextCache]_vars

(* user messages whose handlers may raise, and private messages *)
NextFail ==
    \/ ConnectionMade
    \/ RecvMyInfo
    \/ UpdateConfig
    \/ DataReceivedDispatch
    \/ RecvPrivmsgToBot

SpecFail == Init /\ [][NextFail]_vars

(* reconciliation with module files that may fail to load *)
NextLoad ==
    \/ ConnectionMade
    \/ RecvMyInfoLoad
    \/ UpdateConfigLoad

SpecLoad == Init /\ [][NextLoad]_vars

----------------------------------------------------------------------------
(* Properties *)

Handled(command) ==
    last.op = "data_received" /\ last.msg.command = command
NickRejected ==
    last.op = "data_received" /\ last.msg.command \in NICK_ERRORS
Lines == Out(trace)
Count(lines, command) ==
    Cardinality({i \in DOMAIN lines : IsCommand(lines[i], command)})
NickLine(n) == NICK \o <<" ">> \o n

(* C1: a nickname-rejected reply handled after k NICK commands have been
   written (the k-th rejection of a connection attempt), k < n, writes
   exactly one line, NICK with candidate k+1; handled after all n candidates
   have been written it raises NoMoreNicksError and writes nothing, and the
   number of NICK commands never exceeds n afterwards. *)
C1_NickExhaustion ==
    LET n == Len(connect_info.nicks)
        k == Len(nick_log)
    IN /\ k <= n
       /\ NickRejected =>
            /\ k >= 1
            /\ err \in {NoError, "NoMoreNicksError"}
            /\ err = NoError =>
                 /\ Lines = <<NickLine(connect_info.nicks[k])>>
                 /\ nick = connect_info.nicks[k]
            /\ err = "NoMoreNicksError" => k = n /\ Lines = <<>>

(* candidates [bot, bot_]: NICK bot_ was written, the second rejection is
   fatal and writes nothing *)
C1_Witness ==
    /\ connect_info.nicks = << <<"b","o","t">>, <<"b","o","t","_">> >>
    /\ NickRejected
    /\ err = "NoMoreNicksError"
    /\ nick_log = << <<"b","o","t">>, <<"b","o","t","_">> >>
    /\ Lines = <<>>

(* C2: over the lifetime of the object the NICK commands written carry the
   candidates in list order, each candidate once, at most len(nicks) in all *)
C2_RotationForward ==
    /\ Len(nick_log) <= Len(connect_info.nicks)
    /\ nick_log = SubSeq(connect_info.nicks, 1, Len(nick_log))
    /\ \A i, j \in DOMAIN nick_log : i # j => nick_log[i] # nick_log[j]
    /\ nick_rotation = Len(nick_log)

(* a connection_made invoked again after the list was used up *)
C2_Witness ==
    /\ last.op = "connection_made"
    /\ err = "NoMoreNicksError"
    /\ Len(connect_info.nicks) = MaxNicks
    /\ nick_log = connect_info.nicks

PassLines ==
    IF connect_info.server_pass # None
    THEN <<PASS \o <<" ">> \o connect_info.server_pass>> ELSE <<>>
UserLine ==
    USER \o <<" ">> \o connect_info.user
         \o <<" ","0"," ","*"," ","C","h","a","t","b","o","t">>

(* C3 as stated: every connection_made writes PASS (iff a password is
   configured), USER, NICK with the first candidate, and nothing else *)
C3_Original ==
    last.op = "connection_made" =>
        Lines = PassLines \o <<UserLine>>
                    \o <<NickLine(connect_info.nicks[1])>>

(* C3 amended: connection_made writes PASS (iff a password is configured),
   then USER, then NICK with the first candidate no earlier NICK of this
   object carried, which is the first candidate on the first
   connection_made; when no candidate is left PASS and USER are written,
   no NICK, and NoMoreNicksError is raised.  No JOIN is written. *)
C3_HandshakeOrder ==
    last.op = "connection_made" =>
        LET k == Len(nick_log)
        IN /\ err \in {NoError, "NoMoreNicksError"}
           /\ err = NoError =>
                /\ k >= 1
                /\ Lines = PassLines \o <<UserLine>>
                               \o <<NickLine(connect_info.nicks[k])>>
                /\ \A i \in 1..(k - 1) : nick_log[i] = connect_info.nicks[i]
           /\ err = "NoMoreNicksError" =>
                /\ k = Len(connect_info.nicks)
                /\ Lines = PassLines \o <<UserLine>>
           /\ Count(Lines, JOIN) = 0

(* a second connection_made of the same object, with a password *)
C3_Witness ==
    /\ last.op = "connection_made"
    /\ connect_info.server_pass # None
    /\ err = NoError
    /\ Len(nick_log) = 2
    /\ Len(Lines) = 3

PongLine(token) ==
    PONG \o <<" ">> \o (IF token[1] = ":" THEN token ELSE <<":">> \o token)

(* C4 as stated: every inbound PING is answered by exactly one PONG *)
C4_Original ==
    Handled(PING) => Len(trace) = 1 /\ Count(Lines, PONG) = 1

(* C4 amended: every inbound PING that carries a parameter, before or
   after registration, writes exactly one line and nothing else: PONG with
   the first parameter, prefixed with ':' unless it starts with ':'.
   'PING :abc123' gives 'PONG :abc123'. *)
C4_KeepAlive ==
    (Handled(PING) /\ last.msg.params # <<>>) =>
        /\ err = NoError
        /\ trace = <<Send(PongLine(last.msg.params[1]))>>
        /\ last.msg.params[1] = <<"a","b","c","1","2","3">> =>
             Lines = << <<"P","O","N","G"," ",":","a","b","c","1","2","3">> >>
        /\ last.msg.params[1] = <<":","a","b","c">> =>
             Lines = << <<"P","O","N","G"," ",":","a","b","c">> >>

(* PING :abc123 handled on a registered connection *)
C4_Witness ==
    /\ Handled(PING)
    /\ last.msg.params = << <<"a","b","c","1","2","3">> >>
    /\ ready
    /\ Lines = << <<"P","O","N","G"," ",":","a","b","c","1","2","3">> >>

----------------------------------------------------------------------------
(* Properties of the reconciliation *)

ModNames(kind) ==
    UNION {trace[i].names : i \in {j \in DOMAIN trace : trace[j].ev = kind}}
NoLoadUnload == ModNames("load") = {} /\ ModNames("unload") = {}
RoomList(line, command) == Split(ParamText(line, command), ",")
RoomsNamed(line, command) ==
    {RoomList(line, command)[i] : i \in DOMAIN RoomList(line, command)}
Connected == transport # None
JoinLine(r) == JOIN \o <<" ">> \o r

(* C5: handling RPL_MYINFO sets the ready flag and runs, within the same
   handler, one full pass: the module pass (unload, load, update) and then
   the room pass; with no room joined and a non-empty desired room set the
   pass writes one JOIN that names the desired rooms. *)
C5_RegistrationComplete ==
    Handled(RPL_MYINFO) =>
        /\ ready
        /\ err = NoError
        /\ Len(trace) >= 3
        /\ trace[1].ev = "unload" /\ trace[2].ev = "load"
        /\ trace[3].ev = "update"
        /\ trace[3].names = pre.modules \cap desired_state.modules
        /\ \A i \in 4..Len(trace) : trace[i].ev = "send"
        /\ (pre.rooms = {} /\ desired_state.rooms # {}) =>
             /\ Len(Lines) = 1
             /\ IsCommand(Lines[1], JOIN)
             /\ RoomsNamed(Lines[1], JOIN) = desired_state.rooms

(* registration completes with two rooms desired and none joined *)
C5_Witness ==
    /\ Handled(RPL_MYINFO)
    /\ pre.rooms = {}
    /\ desired_state.rooms = Rooms
    /\ Len(Lines) = 1
    /\ IsCommand(Lines[1], JOIN)

(* C6: while RPL_MYINFO has not been handled no operation writes a JOIN or
   a PART, whatever the desired and the actual rooms are; the handling of
   RPL_MYINFO then writes the JOIN and the PART the two sets call for. *)
C6_RoomsDeferred ==
    /\ ~ready => Count(Lines, JOIN) = 0 /\ Count(Lines, PART) = 0
    /\ Handled(RPL_MYINFO) =>
         /\ Count(Lines, JOIN) = 1 <=> desired_state.rooms \ pre.rooms # {}
         /\ Count(Lines, PART) = 1 <=> pre.rooms \ desired_state.rooms # {}

(* a KICK handled before registration, rooms to join and rooms to leave *)
C6_Witness ==
    /\ ~ready
    /\ Handled(KICK)
    /\ err = NoError
    /\ desired_state.rooms \ state.rooms # {}
    /\ state.rooms \ desired_state.rooms # {}
    /\ Lines = <<>>

(* the operations that run match_desired_rooms exactly once *)
SingleRun ==
    \/ last.op \in {"on_ready", "update_config"}
    \/ Handled(RPL_MYINFO)
    \/ Handled(<<"j","o","i","n">>)

(* C7: one run of match_desired_rooms on a ready, connected bot writes at
   most one PART and at most one JOIN and nothing else; the PART is written
   iff actual minus desired is non-empty and names exactly those rooms,
   each once; likewise the JOIN for desired minus actual; PART comes first *)
C7_Batched ==
    (SingleRun /\ ready /\ Connected) =>
        LET to_leave == state.rooms \ desired_state.rooms
            to_join == desired_state.rooms \ state.rooms
        IN /\ err = NoError
           /\ Count(Lines, PART) = (IF to_leave # {} THEN 1 ELSE 0)
           /\ Count(Lines, JOIN) = (IF to_join # {} THEN 1 ELSE 0)
           /\ Len(Lines) = Count(Lines, PART) + Count(Lines, JOIN)
           /\ \A i \in DOMAIN Lines :
                /\ IsCommand(Lines[i], PART) =>
                     /\ RoomsNamed(Lines[i], PART) = to_leave
                     /\ Len(RoomList(Lines[i], PART)) = Cardinality(to_leave)
                     /\ i = 1
                /\ IsCommand(Lines[i], JOIN) =>
                     /\ RoomsNamed(Lines[i], JOIN) = to_join
                     /\ Len(RoomList(Lines[i], JOIN)) = Cardinality(to_join)
                     /\ i = Len(Lines)

(* one update_config whose pass leaves a room and joins two *)
C7_Witness ==
    /\ last.op = "update_config" /\ ready /\ Connected
    /\ Len(Lines) = 2
    /\ IsCommand(Lines[1], PART) /\ IsCommand(Lines[2], JOIN)
    /\ Cardinality(RoomsNamed(Lines[2], JOIN)) = NumRooms - 1

ActualWasDesired ==
    pre.rooms = pre.desired.rooms /\ pre.modules = pre.desired.modules

(* C8: a pass run with actual state equal to desired state writes nothing
   and loads and unloads nothing; an update_config that then adds one room
   y to the desired rooms and keeps the modules writes exactly one line,
   JOIN y, and loads and unloads nothing. *)
C8_ActualEqualsDesired ==
    /\ ( /\ last.op \in {"on_ready", "update_config"}
         /\ ActualWasDesired
         /\ desired_state = pre.desired ) =>
           Lines = <<>> /\ NoLoadUnload /\ err = NoError
    /\ \A y \in Rooms :
         ( /\ last.op = "update_config" /\ ready /\ Connected
           /\ ActualWasDesired
           /\ desired_state.modules = pre.desired.modules
           /\ y \notin pre.desired.rooms
           /\ desired_state.rooms = pre.desired.rooms \cup {y} ) =>
             Lines = <<JoinLine(y)>> /\ NoLoadUnload /\ err = NoError

(* modules {a, b} and rooms {#x} joined; the desired rooms become {#x, #y} *)
C8_Witness ==
    /\ last.op = "update_config" /\ ready /\ Connected
    /\ ActualWasDesired
    /\ pre.desired = [modules |-> {"a", "b"}, rooms |-> {<<"#","x">>}]
    /\ desired_state = [modules |-> {"a", "b"},
                        rooms |-> {<<"#","x">>, <<"#","y">>}]
    /\ Lines = << <<"J","O","I","N"," ","#","y">> >>

(* C9 as stated: the second of two match_desired_state calls in succession
   on a ready, connected bot writes nothing and loads and unloads nothing *)
C9_Idempotent ==
    ( /\ last.op \in {"on_ready", "update_config"}
      /\ streak = 2 /\ ready /\ Connected ) =>
        Lines = <<>> /\ NoLoadUnload

(* C10 as stated: the handling of a KICK that removes the bot from a
   desired room r, actual rooms equal to desired rooms before, writes
   exactly one JOIN, naming r *)
C10_SelfKick ==
    ( /\ Handled(KICK) /\ err = NoError /\ ready
      /\ last.msg.params[2] = nick
      /\ pre.rooms = desired_state.rooms
      /\ last.msg.params[1] \in pre.rooms ) =>
        Lines = <<JoinLine(last.msg.params[1])>>

(* the operations that are one complete match_desired_state run *)
PassRun ==
    \/ last.op \in {"on_ready", "update_config"}
    \/ Handled(RPL_MYINFO)

(* C11 as stated: once a pass has completed without error on a ready,
   connected bot, and nothing else has happened since, state.modules equals
   desired_state.modules and state.rooms equals desired_state.rooms *)
C11_Convergence ==
    (PassRun /\ ready /\ Connected /\ err = NoError) =>
        /\ state.modules = desired_state.modules
        /\ state.rooms = desired_state.rooms

----------------------------------------------------------------------------
(* Properties of the module map *)

EventAt(kind) == {i \in DOMAIN trace : trace[i].ev = kind}
RanModules == EventAt("unload") # {}
Fns(n) == [i \in DOMAIN calls[n] |-> calls[n][i].fn]
CountFn(n, fn) == Cardinality({i \in DOMAIN calls[n] : calls[n][i].fn = fn})
NoDuplicates(seq) == \A i, j \in DOMAIN seq : i # j => seq[i] # seq[j]

(* C12: in one match_desired_modules run the unloads (actual minus desired)
   all come before the loads (desired minus actual) and the loads all come
   before the updates (desired and actual); no module is both unloaded and
   loaded in a run; and in every state the map registers exactly one
   instance under each of its names: the keys, in insertion order, hold no
   name twice and are the names that have an instance. *)
C12_ModuleOrder ==
    /\ \A i \in EventAt("unload"), j \in EventAt("load") : i < j
    /\ \A i \in EventAt("load"), j \in EventAt("update") : i < j
    /\ \A i \in EventAt("unload"), j \in EventAt("update") : i < j
    /\ RanModules =>
         /\ Cardinality(EventAt("unload")) = 1
         /\ Cardinality(EventAt("load")) = 1
         /\ Cardinality(EventAt("update")) = 1
         /\ ModNames("unload") = pre.modules \ DOMAIN config
         /\ ModNames("load") = (DOMAIN config) \ pre.modules
         /\ ModNames("update") = (DOMAIN config) \cap pre.modules
         /\ \A n \in ModuleNames :
              ~(CountFn(n, "on_unload") > 0 /\ CountFn(n, "__init__") > 0)
    /\ NoDuplicates(module_order)
    /\ Range(module_order) = DOMAIN modules

(* one update_config run that unloads module a and loads module b *)
C12_Witness ==
    /\ last.op = "update_config"
    /\ ModNames("unload") = {"a"}
    /\ ModNames("load") = {"b"}
    /\ module_order = <<"b">>

(* C14 as stated: a module loaded but not in the new configuration (absent
   or disabled) gets, in the next run, on_unload called exactly once while
   it is still in the map, and is removed from the map after that *)
C14_Unload ==
    \A n \in ModNames("unload") :
        /\ Fns(n) = <<"on_unload", "pop">>
        /\ n \notin DOMAIN modules

JoinLeave == {"on_join_room", "on_leave_room"}
MembershipFn == IF Handled(JOIN) THEN "on_join_room" ELSE "on_leave_room"
(* a JOIN, PART or KICK that names its room and its user *)
WellFormedMembership ==
    \/ (Handled(JOIN) \/ Handled(PART))
          /\ last.msg.user # None /\ Len(last.msg.params) >= 1
    \/ Handled(KICK) /\ Len(last.msg.params) >= 2
AboutWhom == IF Handled(KICK) THEN last.msg.params[2] ELSE last.msg.user

(* C18: handling a JOIN sent by the bot adds the room to state.rooms;
   a PART sent by the bot or a KICK of the bot removes it; a JOIN, PART or
   KICK about anyone else leaves state.rooms as it was; and in each case
   on_join_room (JOIN) or on_leave_room (PART, KICK) is called exactly once
   on each module whose rooms contain the room, and on no other module. *)
C18_MembershipTracking ==
    WellFormedMembership =>
        LET room == last.msg.params[1]
            self == AboutWhom = nick
        IN /\ err = NoError
           /\ (Handled(JOIN) /\ self) => state.rooms = pre.rooms \cup {room}
           /\ (~Handled(JOIN) /\ self) => state.rooms = pre.rooms \ {room}
           /\ ~self => state.rooms = pre.rooms
           /\ \A n \in ModuleNames :
                LET mine == n \in DOMAIN pre.mods
                                /\ room \in pre.mods[n].rooms
                    other == JoinLeave \ {MembershipFn}
                IN /\ CountFn(n, MembershipFn) = (IF mine THEN 1 ELSE 0)
                   /\ \A f \in other : CountFn(n, f) = 0
                   /\ mine =>
                        calls[n][1] =
                            Call(MembershipFn, room,
                                 IF self THEN None ELSE AboutWhom, None, None)

(* the bot's own JOIN of #y: module a, in #y, is told; module b, loaded
   and not in #y, is not *)
C18_Witness ==
    /\ Handled(JOIN) /\ last.msg.user = nick
    /\ last.msg.params = << <<"#","y">> >>
    /\ <<"#","y">> \notin pre.rooms
    /\ <<"#","y">> \in state.rooms
    /\ DOMAIN pre.mods = {"a", "b"}
    /\ CountFn("a", "on_join_room") = 1
    /\ CountFn("b", "on_join_room") = 0

----------------------------------------------------------------------------
(* Properties of the module instances and of the dispatch *)

(* C13: a module that is loaded and still enabled when a pass runs (in
   particular when update_config changed only its params) has update_config
   and then on_update_params called on it, once each, on_update_params with
   the params of the new configuration; on_unload is not called, the map
   entry is not popped and nothing is constructed; the instance under the
   name is the one that was there: its memory and its class are what they
   were, and the name keeps its place in the map. *)
C13_UpdatePath ==
    (PassRun /\ err = NoError) =>
        \A n \in (DOMAIN config) \cap pre.modules :
            /\ Fns(n) = <<"update_config", "on_update_params">>
            /\ calls[n][2].arg = config[n].params
            /\ n \in DOMAIN modules /\ n \in DOMAIN pre.mods
            /\ modules[n].mem = pre.mods[n].mem
            /\ modules[n].cls = pre.mods[n].cls
            /\ modules[n].rooms = config[n].rooms

(* module a was built with no params and has seen a message; update_config
   gives it other params and the same rooms *)
C13_Witness ==
    /\ last.op = "update_config"
    /\ "a" \in DOMAIN pre.mods /\ "a" \in DOMAIN modules
    /\ modules["a"].params = NoParams
    /\ config["a"].params = OtherParams
    /\ modules["a"].rooms = pre.mods["a"].rooms
    /\ pre.mods["a"].mem = 1 /\ modules["a"].mem = 1
    /\ Fns("a") = <<"update_config", "on_update_params">>
    /\ calls["a"][2].arg = OtherParams

Routed == EventAt("route") # {}
OfferedNames ==
    LET offer(e) == e.ev = "on_message"
        s == SelectSeq(trace, offer)
    IN [i \in DOMAIN s |-> CHOOSE n \in s[i].names : TRUE]
HasBoth(n) ==
    /\ n \in DOMAIN pre.mods
    /\ pre.mods[n].cls.commands # {} /\ pre.mods[n].cls.on_message

(* C15 as stated: a module with command handlers and a catch-all that is
   offered a message runs exactly the command's handler, with the token,
   the room, the sender and the full message, when the first
   whitespace-delimited word of the message is one of its commands, and
   runs exactly the catch-all otherwise *)
C15_DispatchPrecedence ==
    (Handled(PRIVMSG) /\ Routed) =>
        \A n \in Range(OfferedNames) :
            HasBoth(n) =>
                LET room == last.msg.params[1]
                    text == last.msg.params[2]
                    word == FirstWord(text)
                IN IF word # <<>> /\ word[1] \in pre.mods[n].cls.commands
                   THEN calls[n] = <<Call("command", room, last.msg.user,
                                          word[1], text)>>
                   ELSE calls[n] = <<Call("on_message", room, last.msg.user,
                                          None, text)>>

(* C16: a dispatched message for room r is offered once to each module of
   the map whose rooms contain r and to no other module, and the modules
   are visited in the order of the map, the order in which they were
   registered; a PRIVMSG changes neither that order nor the room sets. *)
C16_RoutingByRoom ==
    (Handled(PRIVMSG) /\ Routed) =>
        LET room == last.msg.params[1]
            mine(n) == room \in pre.mods[n].rooms
        IN /\ OfferedNames = SelectSeq(module_order, mine)
           /\ NoDuplicates(OfferedNames)
           /\ Range(OfferedNames)
                = {n \in DOMAIN pre.mods : room \in pre.mods[n].rooms}
           /\ \A n \in ModuleNames :
                n \notin Range(OfferedNames) => calls[n] = <<>>
           /\ DOMAIN modules = DOMAIN pre.mods
           /\ \A n \in DOMAIN modules : modules[n].rooms = pre.mods[n].rooms

(* b was registered before a, both are in #x: b is offered first *)
C16_Witness ==
    /\ Handled(PRIVMSG) /\ Routed
    /\ module_order = <<"b", "a">>
    /\ last.msg.params[1] = <<"#","x">>
    /\ OfferedNames = <<"b", "a">>

SenderOk ==
    last.msg.user # None /\ last.msg.user # nick
Silent == trace = <<>> /\ calls = NoCalls /\ modules = pre.mods

(* C17 as stated: a PRIVMSG is handed to the router iff its prefix parses
   as a user and the sender's nick is not the bot's; otherwise no handler
   runs and nothing is written *)
C17_Original ==
    Handled(PRIVMSG) =>
        /\ Routed <=> SenderOk
        /\ ~SenderOk => Silent /\ err = NoError

(* C17 amended: a PRIVMSG with a target and a text is handed to the router
   iff its prefix parses as a user and the sender's nick is not the bot's
   current nick; a PRIVMSG sent by the bot's nick or without a parsable
   user prefix, whatever its parameters, runs no handler, writes nothing
   and raises nothing. *)
C17_WhichDispatched ==
    Handled(PRIVMSG) =>
        /\ Len(last.msg.params) >= 2 => (Routed <=> SenderOk)
        /\ Routed => SenderOk /\ Len(last.msg.params) >= 2
        /\ ~SenderOk => Silent /\ err = NoError

(* the bot's own message to #x, where module a listens: dropped *)
C17_Witness ==
    /\ Handled(PRIVMSG)
    /\ nick # None /\ last.msg.user = nick
    /\ last.msg.params
         = << <<"#","x">>, <<"!","h","e","l","p"," ","m","e">> >>
    /\ "a" \in DOMAIN modules /\ <<"#","x">> \in modules["a"].rooms
    /\ Silent

----------------------------------------------------------------------------
(* Properties of data_received on chunks *)

ChunkOp == last = Op("data_received")
ParseRejects(line) == ~Parsed(line).ok
AllRejected == \A i \in DOMAIN chunk : ParseRejects(chunk[i].line)
ChunkLines == [i \in DOMAIN chunk |-> chunk[i].line]

(* C19: a line of a chunk that Message.parse rejects is discarded: nothing
   is written for it, and the lines after it are handled as they would be
   without it (a line is left unhandled only after a line that raised); a
   chunk of rejected lines alone raises nothing, writes nothing and leaves
   the ready flag, the nick cursor and nick, state.rooms, state.modules and
   the module instances as they were, and the transport in place for the
   chunks that follow.  The chunk '12' CRLF 'PING :abc' CRLF writes
   'PONG :abc'. *)
C19_MalformedDiscarded ==
    (ChunkOp /\ err # "UnicodeDecodeError") =>
        /\ \A i \in DOMAIN chunk :
             /\ ParseRejects(chunk[i].line) =>
                  /\ chunk[i].outcome \in {"discarded", "skipped"}
                  /\ chunk[i].out = <<>>
                  /\ (chunk[i].outcome = "discarded" /\ i < Len(chunk)) =>
                       chunk[i + 1].outcome # "skipped"
             /\ chunk[i].outcome = "skipped" =>
                  \E k \in 1..(i - 1) : chunk[k].outcome = "raised"
        /\ (chunk # <<>> /\ AllRejected) =>
             /\ err = NoError
             /\ trace = <<>>
             /\ <<ready, nick_rotation, nick>> = pre.conn
             /\ state.rooms = pre.rooms /\ state.modules = pre.modules
             /\ modules = pre.mods
             /\ transport # None
        /\ ChunkLines = <<TwoDigits, PingLine>> =>
             Lines = << <<"P","O","N","G"," ",":","a","b","c">> >>

(* on a registered connection, a rejected line, then a PING in the same
   chunk: the PING is answered *)
C19_Witness ==
    /\ ChunkOp
    /\ ready
    /\ ChunkLines = <<TwoSpaces, PingLine>>
    /\ chunk[1].outcome = "discarded" /\ chunk[2].outcome = "handled"
    /\ Lines = << <<"P","O","N","G"," ",":","a","b","c">> >>

(* C20 as stated: data_received returns normally for every chunk unless
   the nick list is exhausted, and every line of the chunk is looked at *)
C20_NoEscape ==
    ChunkOp =>
        /\ err \in {NoError, "NoMoreNicksError"}
        /\ err = NoError =>
             \A i \in DOMAIN chunk :
                 chunk[i].outcome \in {"handled", "discarded"}

----------------------------------------------------------------------------
(* Properties of failures *)

RoomMods(room) ==
    LET mine(n) == room \in pre.mods[n].rooms IN SelectSeq(module_order, mine)

(* C21 as stated: when a handler raises while a message is dispatched the
   exception goes no further than the dispatch: every module whose rooms
   contain the room is still offered the message, the lines that follow in
   the chunk are still handled, and the ready flag, the nick cursor and
   state.rooms are what they were *)
C21_HandlerIsolation ==
    (Handled(PRIVMSG) /\ Routed) =>
        /\ err = NoError
        /\ OfferedNames = RoomMods(last.msg.params[1])
        /\ \A i \in DOMAIN chunk : chunk[i].outcome = "handled"
        /\ <<ready, nick_rotation, nick>> = pre.conn
        /\ state.rooms = pre.rooms

Broken(cfg, before) ==
    {n \in (DOMAIN cfg) \ before :
        ModulePath(n, cfg[n]) \notin DOMAIN Files}

(* C22 as stated: in a pass in which the construction of a module fails
   only that module is skipped: every other module of to_load is loaded and
   every module of to_update is updated in the same pass, state.modules is
   the names actually loaded, the room pass still runs (on a ready,
   connected bot it writes the JOIN the rooms call for), and no later pass
   raises because of the failure *)
C22_LoadIsolation ==
    PassRun =>
        LET to_load == (DOMAIN config) \ pre.modules
            to_update == (DOMAIN config) \cap pre.modules
            bad == Broken(config, pre.modules)
        IN /\ err \notin {"KeyError", "LoadError"}
           /\ \A n \in to_load \ bad :
                n \in DOMAIN modules /\ CountFn(n, "__init__") = 1
           /\ \A n \in to_update :
                Fns(n) = <<"update_config", "on_update_params">>
           /\ state.modules = DOMAIN modules
           /\ (ready /\ Connected) =>
                (Count(Lines, JOIN) = 1
                     <=> desired_state.rooms \ state.rooms # {})

----------------------------------------------------------------------------
(* Properties of the codec *)

(* C23 as stated: for every message m that can be constructed, with or
   without a prefix, whose last param may contain spaces,
   Message.parse(str(m)) is a message with the command, the params (as many,
   with the same text, the last kept as one) and the prefix of m; so for the
   messages send_message and _send_command build.  Stated for the commands
   that are words of upper-case letters, the form Message.parse returns. *)
C23_RoundTrip ==
    (codec # NoCodec /\ codec.m.command \in {PRIVMSG, JOIN, PONG}) =>
        /\ codec.parsed.ok
        /\ codec.parsed.command = codec.m.command
        /\ codec.parsed.params = codec.m.params
        /\ codec.parsed.prefix = codec.m.prefix

----------------------------------------------------------------------------
(* Properties of the timers *)

(* C24 as stated: connection_lost cancels the scheduled commands that are
   still pending, so none is pending once it has run, and no scheduled
   command fires while the transport is gone *)
C24_Cancellable ==
    /\ last.op = "connection_lost" => scheduled = <<>>
    /\ last.op = "call_later" => Connected /\ err = NoError

----------------------------------------------------------------------------
(* Properties of the threads *)

Inside(t) == threads[t] # "idle"

(* C25 as stated: update_config and the reconciliation it starts for a
   configuration change run on the thread of the event loop only: the
   watcher thread is never inside them *)
C25_HandOff == ~Inside("watcher")

(* C26 as stated: no two reconciliation passes of the connection are ever
   in progress at once: a pass that has started completes before another
   one starts *)
C26_NoInterleaving == ~(Inside("reactor") /\ Inside("watcher"))

----------------------------------------------------------------------------
(* Properties of a lost connection *)

(* C27 as stated: once connection_lost has run the bot is not treated as
   ready, and a match_desired_state run while the transport is gone (by
   update_config or on_ready) writes no JOIN and no PART and attempts no
   write on the cleared transport *)
C27_ConnectionLoss ==
    /\ ~Connected => ~ready
    /\ (PassRun /\ ~Connected) => Lines = <<>> /\ err = NoError

----------------------------------------------------------------------------
(* Properties of two bots in one process *)

(* C28 as stated: no operation on one bot changes state the other bot reads
   or writes: a step in which this bot's module map gains or changes an
   instance leaves the module cache the second bot's get_module reads as it
   was, and a step in which the second bot loads a module leaves the cache
   this bot reads as it was *)
C28_NoSharedState ==
    [][ (modules' # modules \/ peer' # peer)
            => module_cache' = module_cache ]_vars

----------------------------------------------------------------------------
(* Properties of private messages *)

ToBot == Handled(PRIVMSG) /\ Len(last.msg.params) >= 2
             /\ nick # None /\ last.msg.params[1] = nick

(* C29 as stated: a PRIVMSG from another user that is addressed to the bot
   itself is given to the modules' on_message with the room set to None *)
C29_PrivateMessage ==
    (ToBot /\ SenderOk /\ DOMAIN pre.mods # {}) =>
        /\ OfferedNames # <<>>
        /\ \A n \in ModuleNames :
             \A i \in DOMAIN calls[n] : calls[n][i].room = None

----------------------------------------------------------------------------
(* Properties of the desired state *)

EnabledIn(c) == {n \in DOMAIN c : c[n].enabled}

(* C30: after update_config(c) the desired modules are exactly the names
   whose entry in c is enabled, and the desired rooms are exactly the union
   of the rooms of those entries; both are determined by c alone *)
C30_DesiredState ==
    last.op = "update_config" =>
        /\ desired_state.modules = EnabledIn(last.arg)
        /\ desired_state.rooms
               = UNION {last.arg[n].rooms : n \in EnabledIn(last.arg)}

(* a configuration with a disabled entry that lists a room no enabled entry
   lists, next to an enabled entry that lists a room *)
C30_Witness ==
    /\ last.op = "update_config"
    /\ \E n \in DOMAIN last.arg :
         /\ ~last.arg[n].enabled
         /\ last.arg[n].rooms \ desired_state.rooms # {}
    /\ desired_state.rooms # {}

----------------------------------------------------------------------------
(* Properties of the frame of the handlers *)

(* the operation left the bot's own state as it was *)
SameState ==
    /\ <<ready, nick_rotation, nick>> = pre.conn
    /\ state.rooms = pre.rooms
    /\ state.modules = pre.modules
    /\ desired_state = pre.desired
    /\ modules = pre.mods

(* C31: handling an inbound PING, with or without a parameter, leaves the
   ready flag, the nickname and the nick cursor, state.rooms, state.modules,
   the desired state and every module instance as they were, calls no
   module, and runs no pass: no module event, no JOIN and no PART *)
C31_KeepAliveFrame ==
    Handled(PING) =>
        /\ SameState
        /\ calls = NoCalls
        /\ Len(Lines) = Len(trace)
        /\ Count(Lines, JOIN) = 0 /\ Count(Lines, PART) = 0

(* a PING answered on a ready connection whose rooms differ from the
   desired ones, with a module loaded *)
C31_Witness ==
    /\ Handled(PING)
    /\ ready /\ Connected
    /\ desired_state.rooms \ state.rooms # {}
    /\ DOMAIN modules # {}
    /\ Count(Lines, PONG) = 1

----------------------------------------------------------------------------
(* Properties of the framing *)

(* the messages one data_received call handles when it is given the whole
   stream at once *)
WholeHandled ==
    HandledBy(RunLines(connect_info, stream.st0,
                       SelectSeq(SplitLines(stream.whole), NonEmpty)).log)

(* C32 as stated: once all the bytes of a stream have arrived, in however
   many data_received calls, the messages handled are the messages the
   stream encodes, each CRLF-terminated line once *)
C32_Framing ==
    (stream.whole # <<>> /\ stream.rest = <<>>) =>
        stream.handled = WholeHandled

----------------------------------------------------------------------------
(* Properties of the nick rotation after registration *)

(* C33: a nickname-rejected reply is handled the same way before and after
   registration: with a candidate left the cursor advances by one, NICK is
   written with that candidate and it becomes the current nickname; with
   none left NoMoreNicksError is raised, nothing is written and the cursor
   and the nickname stay; the ready flag is not touched *)
C33_NickErrorWhenReady ==
    NickRejected =>
        LET rot == pre.conn[2]
            nicks == connect_info.nicks
        IN /\ ready = pre.conn[1]
           /\ rot < Len(nicks) =>
                /\ err = NoError
                /\ nick_rotation = rot + 1
                /\ nick = nicks[rot + 1]
                /\ Lines = <<NickLine(nicks[rot + 1])>>
           /\ rot >= Len(nicks) =>
                /\ err = "NoMoreNicksError"
                /\ nick_rotation = rot
                /\ nick = pre.conn[3]
                /\ Lines = <<>>

(* a rejection on a ready connection that moves to the second candidate *)
C33_Witness ==
    /\ NickRejected
    /\ pre.conn[1] /\ ready
    /\ pre.conn[2] = 1
    /\ Len(connect_info.nicks) >= 2
    /\ nick = connect_info.nicks[2]
    /\ Lines = <<NickLine(connect_info.nicks[2])>>

(* C34: connection_lost sets the transport to None and changes nothing
   else: state.rooms, state.modules, the module instances, the desired
   state, the ready flag, the nickname and the nick cursor are as they were
   before the loss, nothing is written and no module is called; the rooms
   recorded as joined are still recorded as joined *)
C34_ConnectionLostFrame ==
    last.op = "connection_lost" =>
        /\ transport = None
        /\ SameState
        /\ trace = <<>>
        /\ calls = NoCalls

(* a ready connection with a room joined and a module loaded is lost *)
C34_Witness ==
    /\ last.op = "connection_lost"
    /\ ready
    /\ state.rooms # {} /\ pre.rooms = state.rooms
    /\ DOMAIN modules # {}

----------------------------------------------------------------------------
(* Properties of every run of the module pass *)

MembershipHandled == Handled(JOIN) \/ Handled(PART) \/ Handled(KICK)

(* C35: every run of match_desired_modules calls update_config exactly once
   on each module that was loaded before the run and is still enabled,
   whether or not its entry changed, and on no module the run loads or
   unloads; every JOIN, PART or KICK that is handled without an error is
   such a run, as is every other trigger of match_desired_state *)
C35_UpdateEveryRun ==
    /\ RanModules =>
         \A n \in ModuleNames :
             CountFn(n, "update_config")
                 = IF n \in pre.modules \cap DOMAIN config THEN 1 ELSE 0
    /\ ((MembershipHandled \/ PassRun) /\ err = NoError) => RanModules

(* a JOIN of another user on a bot whose loaded module has the rooms its
   entry names: update_config is called on it all the same *)
C35_Witness ==
    /\ Handled(JOIN)
    /\ err = NoError
    /\ last.msg.user # nick
    /\ \E n \in pre.modules \cap DOMAIN config :
         /\ pre.mods[n].rooms = config[n].rooms
         /\ pre.mods[n].params = config[n].params
         /\ CountFn(n, "update_config") = 1

(* the module pass of the last operation returned: no load failed and no
   name was missing from the map *)
ModulesCompleted == PassRun /\ err \notin {"KeyError", "LoadError"}

(* C36 as stated: after every match_desired_modules run that completes
   without an exception the keys of the module map, state.modules and
   desired_state.modules (the enabled names of the current config) are the
   same set, and every loaded module's rooms are the rooms of its entry, a
   subset of desired_state.rooms *)
C36_Bookkeeping ==
    ModulesCompleted =>
        /\ DOMAIN modules = state.modules
        /\ state.modules = desired_state.modules
        /\ desired_state.modules = DOMAIN config
        /\ \A n \in DOMAIN modules :
             /\ n \in DOMAIN config
             /\ modules[n].rooms = config[n].rooms
             /\ modules[n].rooms \subseteq desired_state.rooms

(* C37: a module file is imported at most once; the cache holds, for every
   path ever imported and for no other, the class of that first import, and
   entries are never removed or replaced; every module instance of this bot
   and of the other bot has the class the cache holds for its path, however
   the file has changed since and whether or not the module was unloaded in
   between. *)
C37_ModuleCache ==
    /\ \A p \in DOMAIN disk : disk[p].imports <= 1
    /\ DOMAIN module_cache = {p \in DOMAIN disk : disk[p].imports > 0}
    /\ \A p \in DOMAIN module_cache :
          module_cache[p] =
              [commands |-> Files[p].commands,
               on_message |-> Files[p].on_message,
               version |-> disk[p].first]
    /\ \A n \in DOMAIN modules :
          modules[n].cls = module_cache[ModulePath(n, config[n])]
    /\ \A n \in DOMAIN peer : peer[n].cls = module_cache[<<n>> \o PySuffix]
(* this bot re-enables a module whose file was edited after its first import,
   and the other bot has the module loaded too *)
C37_Witness ==
    /\ last.op = "update_config"
    /\ \E n \in (DOMAIN modules) \ pre.modules :
          LET p == ModulePath(n, config[n])
          IN /\ disk[p].version > disk[p].first
             /\ disk[p].imports = 1
             /\ modules[n].cls.version = disk[p].first
             /\ n \in DOMAIN peer
             /\ peer[n].cls = modules[n].cls

----------------------------------------------------------------------------
(* Room reconciliation on membership messages *)

WrittenFor(command, rooms) ==
    /\ Count(Lines, command) = (IF ready /\ rooms # {} THEN 2 ELSE 0)
    /\ \A i \in DOMAIN Lines :
          IsCommand(Lines[i], command) =>
              RoomsNamed(Lines[i], command) = rooms

(* C38: every JOIN, PART or KICK that is handled, about the bot or about
   anyone else, runs the room pass twice: on a ready connection each desired
   room the bot has not seen itself join is named by two JOIN lines, each
   room it is in and should not be by two PART lines, and nothing else is
   written; in particular a room whose JOIN is still unanswered is asked for
   again, twice, by every such message. *)
C38_ReconcileTwice ==
    (MembershipHandled /\ err = NoError) =>
        /\ WrittenFor(JOIN, desired_state.rooms \ state.rooms)
        /\ WrittenFor(PART, state.rooms \ desired_state.rooms)
        /\ Len(Lines) = Count(Lines, JOIN) + Count(Lines, PART)
(* someone else joins while the bot, ready before the message, still waits
   for its own JOIN of a desired room: two more JOIN lines name the room *)
C38_Witness ==
    /\ Handled(JOIN) /\ err = NoError
    /\ last.msg.user # nick
    /\ pre.conn[1]
    /\ pre.rooms = state.rooms
    /\ \E r \in desired_state.rooms \ state.rooms :
          /\ Lines = <<JoinLine(r), JoinLine(r)>>

OwnMessage(command) ==
    /\ Handled(command) /\ err = NoError
    /\ last.msg.user = nick

(* C39: when a ready bot sees its own JOIN for a room that is not in
   desired_state.rooms, the handling of that message adds the room to
   state.rooms and writes a PART that names it; when the bot then sees its
   own PART for a room, the room is not in state.rooms afterwards. *)
C39_UnsolicitedJoin ==
    /\ (OwnMessage(JOIN) /\ ready
           /\ last.msg.params[1] \notin desired_state.rooms) =>
          /\ last.msg.params[1] \in state.rooms
          /\ \E i \in DOMAIN Lines :
                /\ IsCommand(Lines[i], PART)
                /\ last.msg.params[1] \in RoomsNamed(Lines[i], PART)
    /\ OwnMessage(PART) => last.msg.params[1] \notin state.rooms
(* the bot's own JOIN of a room it was not in and does not want: the room is
   tracked and the handler asks to leave it *)
C39_Witness ==
    /\ OwnMessage(JOIN) /\ ready
    /\ last.msg.params[1] \notin desired_state.rooms \cup pre.rooms
    /\ state.rooms = pre.rooms \cup {last.msg.params[1]}
    /\ IsCommand(Lines[1], PART)
    /\ last.msg.params[1] \in RoomsNamed(Lines[1], PART)

====
